---- MODULE Spec2Model ----
(***************************************************************************)
(* State-machine model of the DEX chart service: the indexer               *)
(* (backend/indexer/index.ts), the swap processor                          *)
(* (backend/indexer/swapProcessor.ts), the price calculator                *)
(* (PriceCalculatorEnhanced) and the websocket fan-out server.             *)
(*                                                                         *)
(* Numbers: token amounts are whole tokens (multiples of 1e18 wei), prices *)
(* and USD amounts are exact rationals <<n, d>> in lowest terms, time is   *)
(* in seconds.                                                             *)
(***************************************************************************)
EXTENDS Integers, Sequences, FiniteSets, TLC

VARIABLES
  \* ---- websocket fan-out server
  connected,            \* socket ids with an open connection
  everConnected,        \* socket ids already handed out (ids are never reused)
  pairSubscriptions,    \* Map pairAddress -> Set of socket ids
  socketSubscriptions,  \* Map socketId -> Set of pair addresses
  rooms,                \* socket.io rooms each socket has joined
  redisSubscribed,      \* channels the `subscriber` Redis client is subscribed to
  snapshotReads,        \* socket id -> pairs whose redis.hgetall a subscribe handler awaits
  received,             \* socket id -> the events emitted to the socket, in order
  \* ---- database tables
  tokens,               \* tokens: address -> row
  pairs,                \* pairs: address -> row
  trades,               \* trades: set of rows, UNIQUE(transaction_hash, log_index)
  candles,              \* candles: <<pair, timeframe, time>> -> row
  tokenMetrics,         \* token_metrics: <<token_address, timestamp>> -> row
  dbSeq,                \* commit counter, the created_at of new token and pair rows
  tradeSeq,             \* the trades_id_seq sequence
  \* ---- indexer process
  pairsCache,           \* EnhancedDexIndexer.pairsCache
  tokensCache,          \* EnhancedDexIndexer.tokensCache
  priceCache,           \* EnhancedDexIndexer.priceCache ("<pair>:token0|1" -> USD price)
  calcCache,            \* PriceCalculatorEnhanced.priceCache (token -> price, timestamp)
  now,                  \* wall clock, seconds
  handlers,             \* the running event callbacks
  delivered,            \* number of log deliveries so far
  sync,                 \* the position of syncPairs
  jobs,                 \* the running setInterval callbacks of startCandleGeneration
  jobDueAt,             \* when the candle timer fires next
  metricsJob,           \* the setInterval callback of startMetricsCalculation
  \* ---- history the properties refer to
  stored,               \* keys whose INSERT INTO trades statement completed
  firstStored,          \* key -> the row as its first insert stored it
  lastDone,             \* pair -> the latest delivery whose handler has finished
  candleRuns,           \* candle key -> what the upserts of that candle have read
  priceCall,            \* the arguments and the result of a direct call of the calculator
  published             \* keys of the swaps whose price and trade messages were published

fanoutVars == <<connected, everConnected, pairSubscriptions, socketSubscriptions,
                rooms, redisSubscribed, snapshotReads, received>>

dbVars == <<tokens, pairs, trades, candles, tokenMetrics, dbSeq, tradeSeq>>
cacheVars == <<pairsCache, tokensCache, priceCache, calcCache>>
jobVars == <<jobs, jobDueAt, metricsJob>>
historyVars == <<stored, firstStored, lastDone, candleRuns, priceCall, published>>

vars == <<fanoutVars, dbVars, cacheVars, now, handlers, delivered, sync, jobVars,
          historyVars>>

\* everything but the websocket server's state
indexerVars == <<dbVars, cacheVars, now, handlers, delivered, sync, jobVars, historyVars>>

----------------------------------------------------------------------------
(* Bounds *)

NumSockets == 2
NumPairs == 2
NumFanPairs == 1
MaxEmits == 2
MaxReads == 2
NumLogs == 3
NumHandlers == 2
MaxDeliveries == 2
MaxSwaps == 3
MaxTicks == 2
NumJobs == 1
NumCallTokens == 4
MaxAmount == 2

Sockets == 1..NumSockets
PairIds == 1..NumPairs
FanPairs == 1..NumFanPairs
\* timeframes the modelled clients ask candle updates for
FanTimeframes == {"1m"}

----------------------------------------------------------------------------
(* Websocket fan-out server *)

PriceChannel(pair) == <<"price", pair>>
CandleChannel(pair, tf) == <<"candles", pair, tf>>
PairRoom(pair) == <<"pair", pair>>

\* Map.get(k) || new Set()
MapGet(map, k) == IF k \in DOMAIN map THEN map[k] ELSE {}

\* Map.set(k, v)
MapSet(map, k, v) == [x \in (DOMAIN map) \cup {k} |-> IF x = k THEN v ELSE map[x]]

\* Map.delete(k)
MapDelete(map, k) == [x \in (DOMAIN map) \ {k} |-> map[x]]

\* subs.delete(socket.id) alone: the emptied sets stay in the map
DropSocketKeepEmpty(pairSubs, s, ps) ==
  [p \in DOMAIN pairSubs |-> IF p \in ps THEN pairSubs[p] \ {s} ELSE pairSubs[p]]

\* subs.delete(socket.id); if (subs.size === 0) pairSubscriptions.delete(pair),
\* for every pair of `ps` that has an entry
DropSocketFromPairs(pairSubs, s, ps) ==
  LET touched == ps \cap DOMAIN pairSubs
      emptied == {p \in touched : pairSubs[p] \ {s} = {}}
  IN  [p \in (DOMAIN pairSubs) \ emptied |->
         IF p \in touched THEN pairSubs[p] \ {s} ELSE pairSubs[p]]

\* the price channels unsubscribed while dropping socket s from the pairs ps
EmptiedPairs(pairSubs, s, ps) ==
  {p \in ps \cap DOMAIN pairSubs : pairSubs[p] \ {s} = {}}

Connect(s) ==
  /\ s \notin everConnected
  /\ connected' = connected \cup {s}
  /\ everConnected' = everConnected \cup {s}
  /\ UNCHANGED <<pairSubscriptions, socketSubscriptions, rooms, redisSubscribed,
                 snapshotReads, received, indexerVars>>

\* the pairs of a subscribe message in the order of its array
RECURSIVE InOrder(_)
InOrder(ps) ==
  IF ps = {} THEN <<>>
  ELSE LET p == CHOOSE x \in ps : \A y \in ps : x <= y
       IN  <<p>> \o InOrder(ps \ {p})

\* socket.on('subscribe', { pairs }) up to its first await: the maps, the rooms
\* and the Redis subscriptions are changed, the reads of the current prices
\* are still to be answered
Subscribe(s, pairList) ==
  /\ s \in connected
  /\ Len(snapshotReads[s]) + Cardinality(pairList) <= MaxReads
  /\ LET previousSubs == MapGet(socketSubscriptions, s)
         cleaned == DropSocketFromPairs(pairSubscriptions, s, previousSubs)
         unsubscribed == {PriceChannel(p) : p \in EmptiedPairs(pairSubscriptions, s, previousSubs)}
         added == [p \in (DOMAIN cleaned) \cup pairList |->
                     IF p \in pairList THEN MapGet(cleaned, p) \cup {s} ELSE cleaned[p]]
         subscribed == {PriceChannel(p) : p \in pairList \ DOMAIN cleaned}
     IN  /\ pairSubscriptions' = added
         /\ redisSubscribed' = (redisSubscribed \ unsubscribed) \cup subscribed
         /\ socketSubscriptions' = MapSet(socketSubscriptions, s, pairList)
         /\ rooms' = [rooms EXCEPT ![s] = @ \cup {PairRoom(p) : p \in pairList}]
         /\ snapshotReads' = [snapshotReads EXCEPT ![s] = @ \o InOrder(pairList)]
  /\ UNCHANGED <<connected, everConnected, received, indexerVars>>

\* socket.on('unsubscribe', { pairs })
Unsubscribe(s, pairList) ==
  /\ s \in connected
  /\ IF s \in DOMAIN socketSubscriptions
       THEN /\ socketSubscriptions' = [socketSubscriptions EXCEPT ![s] = @ \ pairList]
            /\ rooms' = [rooms EXCEPT ![s] = @ \ {PairRoom(p) : p \in pairList}]
            /\ pairSubscriptions' = DropSocketFromPairs(pairSubscriptions, s, pairList)
            /\ redisSubscribed' = redisSubscribed \
                 {PriceChannel(p) : p \in EmptiedPairs(pairSubscriptions, s, pairList)}
       ELSE UNCHANGED <<socketSubscriptions, rooms, pairSubscriptions, redisSubscribed>>
  /\ UNCHANGED <<connected, everConnected, snapshotReads, received, indexerVars>>

\* socket.on('subscribe_candles', { pair, timeframe })
SubscribeCandles(s, pair, tf) ==
  /\ s \in connected
  /\ rooms' = [rooms EXCEPT ![s] = @ \cup {CandleChannel(pair, tf)}]
  /\ redisSubscribed' = redisSubscribed \cup {CandleChannel(pair, tf)}
  /\ UNCHANGED <<connected, everConnected, pairSubscriptions, socketSubscriptions,
                 snapshotReads, received, indexerVars>>

\* socket.on('disconnect'): socket.io has already removed the socket from its rooms;
\* an emit of a subscribe handler that is still waiting reaches nobody
Disconnect(s) ==
  /\ s \in connected
  /\ connected' = connected \ {s}
  /\ rooms' = [rooms EXCEPT ![s] = {}]
  /\ snapshotReads' = [snapshotReads EXCEPT ![s] = <<>>]
  /\ IF s \in DOMAIN socketSubscriptions
       THEN /\ pairSubscriptions' =
                 DropSocketFromPairs(pairSubscriptions, s, socketSubscriptions[s])
            /\ redisSubscribed' = redisSubscribed \
                 {PriceChannel(p) : p \in EmptiedPairs(pairSubscriptions, s, socketSubscriptions[s])}
            /\ socketSubscriptions' = MapDelete(socketSubscriptions, s)
       ELSE UNCHANGED <<pairSubscriptions, redisSubscribed, socketSubscriptions>>
  /\ UNCHANGED <<everConnected, received, indexerVars>>

\* an event emitted to a socket; live: emitted by the handler of Redis messages
Emitted(event, channel, live) == [event |-> event, channel |-> channel, live |-> live]

\* subscribe after `await redis.hgetall(`price:${pair}`)`: the current price of
\* the pair is emitted to the socket if the hash has one (hasPrice)
SnapshotReply(s, hasPrice) ==
  /\ snapshotReads[s] # <<>>
  /\ Len(received[s]) < MaxEmits
  /\ snapshotReads' = [snapshotReads EXCEPT ![s] = Tail(@)]
  /\ received' = IF hasPrice
                   THEN [received EXCEPT ![s] =
                           Append(@, Emitted("price_update",
                                             PriceChannel(Head(snapshotReads[s])), FALSE))]
                   ELSE received
  /\ UNCHANGED <<connected, everConnected, pairSubscriptions, socketSubscriptions, rooms,
                 redisSubscribed, indexerVars>>

\* the room of socket.io the messages of a Redis channel are emitted to
RoomOf(channel) == IF channel[1] = "price" THEN PairRoom(channel[2]) ELSE channel

\* subscriber.on('message'): a message published on a channel the subscriber
\* client is subscribed to is emitted to the sockets in the channel's room
RedisMessage(channel) ==
  /\ channel \in redisSubscribed
  /\ LET members == {s \in connected : RoomOf(channel) \in rooms[s]}
     IN  /\ members # {}
         /\ \A s \in members : Len(received[s]) < MaxEmits
         /\ received' = [s \in Sockets |->
              IF s \in members
                THEN Append(received[s],
                            Emitted(IF channel[1] = "price" THEN "price_update"
                                    ELSE "candle_update", channel, TRUE))
                ELSE received[s]]
  /\ UNCHANGED <<connected, everConnected, pairSubscriptions, socketSubscriptions, rooms,
                 redisSubscribed, snapshotReads, indexerVars>>

FanoutStart ==
  /\ connected = {}
  /\ everConnected = {}
  /\ pairSubscriptions = <<>>
  /\ socketSubscriptions = <<>>
  /\ rooms = [s \in Sockets |-> {}]
  /\ redisSubscribed = {}
  /\ snapshotReads = [s \in Sockets |-> <<>>]
  /\ received = [s \in Sockets |-> <<>>]

\* the channels a message can arrive on
FanChannels ==
  {PriceChannel(p) : p \in FanPairs}
    \cup {CandleChannel(p, tf) : p \in FanPairs, tf \in FanTimeframes}

FanoutNext ==
  \/ \E s \in Sockets : Connect(s)
  \/ \E s \in Sockets, pairList \in SUBSET FanPairs : Subscribe(s, pairList)
  \/ \E s \in Sockets, pairList \in SUBSET FanPairs : Unsubscribe(s, pairList)
  \/ \E s \in Sockets, p \in FanPairs, tf \in FanTimeframes : SubscribeCandles(s, p, tf)
  \/ \E s \in Sockets : Disconnect(s)
  \/ \E s \in Sockets, hasPrice \in BOOLEAN : SnapshotReply(s, hasPrice)
  \/ \E channel \in FanChannels : RedisMessage(channel)

----------------------------------------------------------------------------
(* Numbers: JavaScript numbers as exact rationals <<n, d>>, d > 0 *)

RECURSIVE GCD(_, _)
GCD(a, b) == IF b = 0 THEN a ELSE GCD(b, a % b)

Abs(n) == IF n < 0 THEN -n ELSE n

\* n / d in lowest terms; x / 0 is Infinity, <<1, 0>>
Rat(n, d) ==
  IF d = 0 THEN <<1, 0>>
  ELSE LET g == GCD(Abs(n), Abs(d))
           sgn == IF d < 0 THEN -1 ELSE 1
       IN  <<sgn * (n \div g), sgn * (d \div g)>>

RZero == <<0, 1>>
RInt(n) == <<n, 1>>
RMul(x, y) == Rat(x[1] * y[1], x[2] * y[2])
RDiv(x, y) == Rat(x[1] * y[2], x[2] * y[1])
RAdd(x, y) == Rat(x[1] * y[2] + y[1] * x[2], x[2] * y[2])
RLt(x, y) == x[1] * y[2] < y[1] * x[2]
RPos(x) == x[1] > 0
\* Math.max, Math.min, GREATEST, LEAST
RMax(x, y) == IF RLt(x, y) THEN y ELSE x
RMin(x, y) == IF RLt(y, x) THEN y ELSE x

----------------------------------------------------------------------------
(* Addresses and the chain *)

\* tokens are numbered; WOPN, the quote asset, is token 1
WOPN == 1

\* an address string: the account and whether it is written in lower case;
\* ethers returns addresses checksummed (mixed case)
Checksummed(id) == [id |-> id, lower |-> FALSE]
\* String.prototype.toLowerCase, SQL LOWER
ToLowerCase(a) == [a EXCEPT !.lower = TRUE]

\* PriceCalculatorEnhanced.WOPN_ADDRESS, OPN_PRICE_USD
WOPN_ADDRESS == ToLowerCase(Checksummed(WOPN))
OPN_PRICE_USD == Rat(1, 20)
\* PriceCalculatorEnhanced.CACHE_TTL, in seconds
CACHE_TTL == 30

\* the pair contracts the factory lists (one per token pair): pair 1 trades
\* token 2 against WOPN, pair 2 trades token 2 against token 3 (no quote asset),
\* pair p > 2 trades token p against WOPN
ChainPair(p) ==
  CASE p = 1 -> [token0 |-> Checksummed(2), token1 |-> Checksummed(WOPN),
                 reserve0 |-> 200, reserve1 |-> 10]
    [] p = 2 -> [token0 |-> Checksummed(2), token1 |-> Checksummed(3),
                 reserve0 |-> 100, reserve1 |-> 200]
    [] OTHER -> [token0 |-> Checksummed(p), token1 |-> Checksummed(WOPN),
                 reserve0 |-> 50, reserve1 |-> 10]

\* the Swap logs the chain holds; key stands for (transactionHash, index); the
\* blocks of logs 1..NumLogs were mined before the indexer started, the block of
\* log NumLogs + 1 is mined five minutes after the epoch; log NumLogs + 2 has
\* an input and an output of token0 only
ChainLog(i) ==
  CASE i = 1 -> [key |-> 1, address |-> 1, blockTimestamp |-> 10,
                 amount0In |-> 10, amount1In |-> 0, amount0Out |-> 0, amount1Out |-> 1]
    [] i = 2 -> [key |-> 2, address |-> 1, blockTimestamp |-> 20,
                 amount0In |-> 0, amount1In |-> 1, amount0Out |-> 5, amount1Out |-> 0]
    [] i = 3 -> [key |-> 3, address |-> 2, blockTimestamp |-> 20,
                 amount0In |-> 2, amount1In |-> 0, amount0Out |-> 0, amount1Out |-> 4]
    [] i = NumLogs + 1 ->
                [key |-> i, address |-> 1, blockTimestamp |-> 300,
                 amount0In |-> 0, amount1In |-> 2, amount0Out |-> 8, amount1Out |-> 0]
    [] i = NumLogs + 2 ->
                [key |-> i, address |-> 1, blockTimestamp |-> 20,
                 amount0In |-> 3, amount1In |-> 0, amount0Out |-> 2, amount1Out |-> 0]
    [] OTHER -> [key |-> i, address |-> 1, blockTimestamp |-> 20,
                 amount0In |-> 0, amount1In |-> 4, amount0Out |-> 10, amount1Out |-> 0]
LogIds == 1..NumLogs
LateLog == NumLogs + 1
\* the log of a flash swap: token0 borrowed and paid back in token0
FlashLog == NumLogs + 2

\* a catch that puts no placeholder in the place of the failed call
ChainSymbolEmpty(id) == IF id = 3 THEN "" ELSE "SYM"

\* the symbol a token contract reports; the contract of token 3 has no symbol()
\* and indexToken stores its placeholder
ChainSymbol(id) == IF id = 3 THEN "UNKNOWN" ELSE "SYM"

\* the period of the setInterval of startCandleGeneration, seconds
CANDLE_INTERVAL == 60

\* the clock is observed once per period of the candle timer; the process starts
\* one period after the epoch
TickSeconds == CANDLE_INTERVAL
StartTime == CANDLE_INTERVAL
MaxNow == StartTime + MaxTicks * TickSeconds

----------------------------------------------------------------------------
(* PriceCalculatorEnhanced *)

Null == [null |-> TRUE]

TokenPrice(opn, usd, inverse) ==
  [priceInOPN |-> opn, priceInUSD |-> usd, priceInverse |-> inverse]

PriceUpdate(t0, t1, p0, p1, volumeUSD) ==
  [token0 |-> t0, token1 |-> t1, token0Price |-> p0, token1Price |-> p1,
   volumeUSD24h |-> volumeUSD]

\* a cache whose entries are still returned at the age of CACHE_TTL
getCachedPriceAtTTL(cache, token, t) ==
  IF token.id \in DOMAIN cache /\ t - cache[token.id].timestamp <= CACHE_TTL
    THEN cache[token.id].priceUSD
    ELSE RZero

\* getCachedPrice(token)?.priceUSD || 0 at time t
getCachedPrice(cache, token, t) ==
  IF token.id \in DOMAIN cache /\ t - cache[token.id].timestamp < CACHE_TTL
    THEN cache[token.id].priceUSD
    ELSE RZero

\* updatePriceCache(token, priceUSD) at time t
updatePriceCache(cache, token, priceUSD, t) ==
  MapSet(cache, token.id, [priceUSD |-> priceUSD, timestamp |-> t])

\* the latest token_metrics row of the token with price_usd > 0
getTokenPriceFromDB(metrics, token) ==
  LET rows == {k \in DOMAIN metrics : k[1].id = token.id /\ RPos(metrics[k].price_usd)}
  IN  IF rows = {} THEN RZero
      ELSE LET k == CHOOSE k \in rows : \A j \in rows : j[2] <= k[2]
           IN  metrics[k].price_usd

\* the pair of the token with WOPN that has the largest reserve product prices
\* the token by its reserve ratio (the native-token base has no pairs); divisors
\* are the right operands of the divisions the call evaluates
findPricePathThroughBase(pairsTbl, token) ==
  LET rows == {p \in DOMAIN pairsTbl :
                 {pairsTbl[p].token0.id, pairsTbl[p].token1.id} = {token.id, WOPN}}
  IN  IF token.id = WOPN \/ rows = {} THEN [price |-> RZero, divisors |-> {}]
      ELSE LET p == CHOOSE p \in rows : \A q \in rows :
                      pairsTbl[q].reserve0 * pairsTbl[q].reserve1
                        <= pairsTbl[p].reserve0 * pairsTbl[p].reserve1
               isToken0 == pairsTbl[p].token0.id = token.id
               tokenReserve == IF isToken0 THEN pairsTbl[p].reserve0 ELSE pairsTbl[p].reserve1
               baseReserve == IF isToken0 THEN pairsTbl[p].reserve1 ELSE pairsTbl[p].reserve0
           IN  IF tokenReserve > 0 /\ baseReserve > 0
                 THEN [price |-> RMul(Rat(baseReserve, tokenReserve), OPN_PRICE_USD),
                       divisors |-> {RInt(tokenReserve)}]
                 ELSE [price |-> RZero, divisors |-> {}]

\* a fallback that gives up: no result for a pair that cannot be priced
calculateFallbackPriceNull(tokenA, tokenB, amountAIn, amountBOut) ==
  [result |-> Null, divisors |-> {}]

\* isStablecoin is constantly false: neither token has a USD price, the rate
\* of the swap is kept
calculateFallbackPrice(tokenA, tokenB, amountAIn, amountBOut) ==
  [result |-> PriceUpdate(tokenA, tokenB,
                TokenPrice(RZero, RZero, Rat(amountBOut, amountAIn)),
                TokenPrice(RZero, RZero, RDiv(RInt(1), Rat(amountBOut, amountAIn))),
                RZero),
   divisors |-> {RInt(amountAIn), Rat(amountBOut, amountAIn)}]

\* a fallback result returned by a caller that has used `divisors` itself
FallbackFrom(fallback, cache, divisors) ==
  [result |-> fallback.result, cache |-> cache,
   divisors |-> fallback.divisors \cup divisors]

\* getCachedPrice(token)?.priceUSD || 0 and, when that is 0, getTokenPriceFromDB
knownPrice(cache, metrics, token, t) ==
  IF getCachedPrice(cache, token, t) = RZero
    THEN getTokenPriceFromDB(metrics, token)
    ELSE getCachedPrice(cache, token, t)

\* a derivation that multiplies by the rate in both cases: B = A * rate
derivePricesMultiplied(a, b, amountAIn, amountBOut, divisors) ==
  IF a = RZero /\ RPos(b)
    THEN [a |-> RMul(Rat(amountBOut, amountAIn), b), b |-> b,
          divisors |-> divisors \cup {RInt(amountAIn)}]
  ELSE IF b = RZero /\ RPos(a)
    THEN [a |-> a, b |-> RMul(a, Rat(amountBOut, amountAIn)),
          divisors |-> divisors \cup {RInt(amountAIn)}]
  ELSE [a |-> a, b |-> b, divisors |-> divisors]

\* if (A === 0 && B > 0) A = rate * B; else if (B === 0 && A > 0) B = A / rate;
\* with rate = amountBOut / amountAIn
derivePrices(a, b, amountAIn, amountBOut, divisors) ==
  IF a = RZero /\ RPos(b)
    THEN [a |-> RMul(Rat(amountBOut, amountAIn), b), b |-> b,
          divisors |-> divisors \cup {RInt(amountAIn)}]
  ELSE IF b = RZero /\ RPos(a)
    THEN [a |-> a, b |-> RDiv(a, Rat(amountBOut, amountAIn)),
          divisors |-> divisors \cup {RInt(amountAIn), Rat(amountBOut, amountAIn)}]
  ELSE [a |-> a, b |-> b, divisors |-> divisors]

\* updatePriceCache of both tokens and the PriceUpdate of calculateCrossPairPrice
crossPairResult(cache, t, tokenA, tokenB, amountAIn, prices) ==
  [result |-> PriceUpdate(tokenA, tokenB,
                TokenPrice(RDiv(prices.a, OPN_PRICE_USD), prices.a,
                           IF RPos(prices.b) THEN RDiv(prices.b, prices.a) ELSE RZero),
                TokenPrice(RDiv(prices.b, OPN_PRICE_USD), prices.b,
                           IF RPos(prices.a) THEN RDiv(prices.a, prices.b) ELSE RZero),
                RMul(RInt(amountAIn), prices.a)),
   cache |-> updatePriceCache(updatePriceCache(cache, tokenA, prices.a, t),
                              tokenB, prices.b, t),
   divisors |-> prices.divisors \cup {OPN_PRICE_USD}
                  \cup (IF RPos(prices.b) THEN {prices.a} ELSE {})
                  \cup (IF RPos(prices.a) THEN {prices.b} ELSE {})]

\* calculateCrossPairPrice once the cache and token_metrics gave dbA and dbB;
\* pathA and pathB are what findPricePathThroughBase gives when both are 0
crossPairFrom(cache, t, tokenA, tokenB, amountAIn, amountBOut, dbA, dbB, pathA, pathB) ==
  IF dbA = RZero /\ dbB = RZero
    THEN IF pathA.price = RZero /\ pathB.price = RZero
           THEN FallbackFrom(calculateFallbackPrice(tokenA, tokenB, amountAIn, amountBOut),
                             cache, pathA.divisors \cup pathB.divisors)
           ELSE crossPairResult(cache, t, tokenA, tokenB, amountAIn,
                                derivePrices(pathA.price, pathB.price, amountAIn,
                                             amountBOut,
                                             pathA.divisors \cup pathB.divisors))
    ELSE crossPairResult(cache, t, tokenA, tokenB, amountAIn,
                         derivePrices(dbA, dbB, amountAIn, amountBOut, {}))

\* the result, the price cache it leaves and the divisors it has used
calculateCrossPairPrice(cache, metrics, pairsTbl, t, tokenA, tokenB, amountAIn, amountBOut) ==
  crossPairFrom(cache, t, tokenA, tokenB, amountAIn, amountBOut,
                knownPrice(cache, metrics, tokenA, t),
                knownPrice(cache, metrics, tokenB, t),
                findPricePathThroughBase(pairsTbl, tokenA),
                findPricePathThroughBase(pairsTbl, tokenB))

\* the WOPN side priced at 1 USD (the fiat price left unscaled)
WopnPriceOneUSD == TokenPrice(RInt(1), RInt(1), RInt(1))

WopnPrice == TokenPrice(RInt(1), OPN_PRICE_USD, RInt(1))

\* DirectPrice with the two ratios exchanged
DirectPriceInverted(opn, inverse) == TokenPrice(inverse, RMul(inverse, OPN_PRICE_USD), opn)

\* the price of the other token of a WOPN pair: `opn` WOPN per token, `inverse`
\* tokens per WOPN
DirectPrice(opn, inverse) == TokenPrice(opn, RMul(opn, OPN_PRICE_USD), inverse)

\* PriceCalculatorEnhanced.calculateSwapPrice without `&& amt0Out > 0` in the
\* condition of its second branch
calculateSwapPriceAnyOut(cache, metrics, pairsTbl, t, token0, token1, amount0In, amount1In, amount0Out, amount1Out, db) ==
  LET isToken0WOPN == ToLowerCase(token0) = WOPN_ADDRESS
      isToken1WOPN == ToLowerCase(token1) = WOPN_ADDRESS
      direct(p0, p1, volumeInOPN, rate) ==
        [result |-> PriceUpdate(token0, token1, p0, p1,
                                RMul(RInt(volumeInOPN), OPN_PRICE_USD)),
         cache |-> cache, divisors |-> {rate}]
      cross(tokenA, tokenB, amountAIn, amountBOut) ==
        IF ~db
          THEN FallbackFrom(calculateFallbackPrice(tokenA, tokenB, amountAIn, amountBOut),
                            cache, {})
          ELSE calculateCrossPairPrice(cache, metrics, pairsTbl, t,
                                       tokenA, tokenB, amountAIn, amountBOut)
      withRate(r, amountIn) == [r EXCEPT !.divisors = @ \cup {RInt(amountIn)}]
  IN  IF amount0In > 0 /\ amount1Out > 0
        THEN LET rate == Rat(amount1Out, amount0In)
             IN  withRate(IF isToken0WOPN
                            THEN direct(WopnPrice, DirectPrice(RDiv(RInt(1), rate), rate),
                                        amount0In, rate)
                          ELSE IF isToken1WOPN
                            THEN direct(DirectPrice(rate, RDiv(RInt(1), rate)), WopnPrice,
                                        amount1Out, rate)
                          ELSE cross(token0, token1, amount0In, amount1Out), amount0In)
      ELSE IF amount1In > 0
        THEN LET rate == Rat(amount0Out, amount1In)
             IN  withRate(IF isToken1WOPN
                            THEN direct(DirectPrice(RDiv(RInt(1), rate), rate), WopnPrice,
                                        amount1In, rate)
                          ELSE IF isToken0WOPN
                            THEN direct(WopnPrice, DirectPrice(rate, RDiv(RInt(1), rate)),
                                        amount0Out, rate)
                          ELSE cross(token1, token0, amount1In, amount0Out), amount1In)
      ELSE [result |-> Null, cache |-> cache, divisors |-> {}]

\* db: whether the caller passes the connection pool (the optional last
\* argument); the result, the price cache the call leaves and the divisors it
\* has used
calculateSwapPrice(cache, metrics, pairsTbl, t, token0, token1, amount0In, amount1In, amount0Out, amount1Out, db) ==
  LET isToken0WOPN == ToLowerCase(token0) = WOPN_ADDRESS
      isToken1WOPN == ToLowerCase(token1) = WOPN_ADDRESS
      direct(p0, p1, volumeInOPN, rate) ==
        [result |-> PriceUpdate(token0, token1, p0, p1,
                                RMul(RInt(volumeInOPN), OPN_PRICE_USD)),
         cache |-> cache, divisors |-> {rate}]
      cross(tokenA, tokenB, amountAIn, amountBOut) ==
        IF ~db
          THEN FallbackFrom(calculateFallbackPrice(tokenA, tokenB, amountAIn, amountBOut),
                            cache, {})
          ELSE calculateCrossPairPrice(cache, metrics, pairsTbl, t,
                                       tokenA, tokenB, amountAIn, amountBOut)
      withRate(r, amountIn) == [r EXCEPT !.divisors = @ \cup {RInt(amountIn)}]
  IN  IF amount0In > 0 /\ amount1Out > 0
        THEN LET rate == Rat(amount1Out, amount0In)
             IN  withRate(IF isToken0WOPN
                            THEN direct(WopnPrice, DirectPrice(RDiv(RInt(1), rate), rate),
                                        amount0In, rate)
                          ELSE IF isToken1WOPN
                            THEN direct(DirectPrice(rate, RDiv(RInt(1), rate)), WopnPrice,
                                        amount1Out, rate)
                          ELSE cross(token0, token1, amount0In, amount1Out), amount0In)
      ELSE IF amount1In > 0 /\ amount0Out > 0
        THEN LET rate == Rat(amount0Out, amount1In)
             IN  withRate(IF isToken1WOPN
                            THEN direct(DirectPrice(RDiv(RInt(1), rate), rate), WopnPrice,
                                        amount1In, rate)
                          ELSE IF isToken0WOPN
                            THEN direct(WopnPrice, DirectPrice(rate, RDiv(RInt(1), rate)),
                                        amount0Out, rate)
                          ELSE cross(token1, token0, amount1In, amount0Out), amount1In)
      ELSE [result |-> Null, cache |-> cache, divisors |-> {}]

\* PriceCalculator.calculateNonWOPNPairPrice: isStablecoin is constantly false,
\* placeholder prices
calculateNonWOPNPairPrice(tokenA, tokenB, amountAIn, amountBOut) ==
  LET rate == Rat(amountBOut, amountAIn)
      placeholder == TokenPrice(RZero, RZero, RZero)
  IN  [result |-> PriceUpdate(tokenA, tokenB, placeholder, placeholder,
                              RMul(RInt(amountAIn), placeholder.priceInUSD)),
       divisors |-> {RInt(amountAIn)}]

\* PriceCalculator.calculateSwapPrice, the calculator without database lookups
PriceCalculator_calculateSwapPrice(token0, token1, amount0In, amount1In, amount0Out, amount1Out) ==
  LET isToken0WOPN == ToLowerCase(token0) = WOPN_ADDRESS
      isToken1WOPN == ToLowerCase(token1) = WOPN_ADDRESS
      direct(p0, p1, volumeInOPN, rate) ==
        [result |-> PriceUpdate(token0, token1, p0, p1,
                                RMul(RInt(volumeInOPN), OPN_PRICE_USD)),
         divisors |-> {rate}]
      withRate(r, amountIn) == [r EXCEPT !.divisors = @ \cup {RInt(amountIn)}]
  IN  IF amount0In > 0 /\ amount1Out > 0
        THEN LET rate == Rat(amount1Out, amount0In)
             IN  withRate(IF isToken0WOPN
                            THEN direct(WopnPrice, DirectPrice(RDiv(RInt(1), rate), rate),
                                        amount0In, rate)
                          ELSE IF isToken1WOPN
                            THEN direct(DirectPrice(rate, RDiv(RInt(1), rate)), WopnPrice,
                                        amount1Out, rate)
                          ELSE calculateNonWOPNPairPrice(token0, token1, amount0In,
                                                         amount1Out), amount0In)
      ELSE IF amount1In > 0 /\ amount0Out > 0
        THEN LET rate == Rat(amount0Out, amount1In)
             IN  withRate(IF isToken1WOPN
                            THEN direct(DirectPrice(RDiv(RInt(1), rate), rate), WopnPrice,
                                        amount1In, rate)
                          ELSE IF isToken0WOPN
                            THEN direct(WopnPrice, DirectPrice(rate, RDiv(RInt(1), rate)),
                                        amount0Out, rate)
                          ELSE calculateNonWOPNPairPrice(token1, token0, amount1In,
                                                         amount0Out), amount1In)
      ELSE [result |-> Null, divisors |-> {}]

\* no direct call of a calculator has been made
NoCall == [pc |-> "none"]

\* what a direct call was given, the price cache it found and what it returned
Returned(calculator, token0, token1, amount0In, amount1In, amount0Out, amount1Out, db, cache, calc) ==
  [pc |-> "returned", calculator |-> calculator, token0 |-> token0, token1 |-> token1,
   amount0In |-> amount0In, amount1In |-> amount1In, amount0Out |-> amount0Out,
   amount1Out |-> amount1Out, db |-> db, cache |-> cache, result |-> calc.result,
   divisors |-> calc.divisors]

\* (amountIn / reserveIn) * 100
calculatePriceImpact(amountIn, reserveIn, reserveOut) ==
  IF reserveIn = 0 \/ reserveOut = 0 THEN RZero
  ELSE RMul(Rat(amountIn, reserveIn), RInt(100))

\* PriceCalculator.calculatePriceImpact: the output of the constant-product
\* formula after the 0.3% fee against the spot price, in percent, Math.abs of it
PriceCalculator_calculatePriceImpact(amountIn, reserveIn, reserveOut) ==
  LET amountInWithFee == amountIn * 997
      numerator == amountInWithFee * reserveOut
      denominator == (reserveIn * 1000) + amountInWithFee
      amountOut == Rat(numerator, denominator)
      executionPrice == RDiv(amountOut, RInt(amountIn))
      spotPrice == Rat(reserveOut, reserveIn)
      priceImpact == RMul(RDiv(RAdd(spotPrice, RMul(RInt(-1), executionPrice)), spotPrice),
                          RInt(100))
  IN  IF priceImpact[1] < 0 THEN <<-priceImpact[1], priceImpact[2]>> ELSE priceImpact

----------------------------------------------------------------------------
(* Database statements *)

TradeKeys(tbl) == {r.key : r \in tbl}

\* INSERT INTO trades on a table without UNIQUE(transaction_hash, log_index):
\* every statement adds a row
InsertTradeNoUnique(tbl, row) == tbl \cup {row}

\* INSERT INTO trades ... ON CONFLICT (transaction_hash, log_index) DO UPDATE SET
\* amount_in_usd, amount_out_usd, price_token0_usd, price_token1_usd
InsertTradeOrUpdate(tbl, row) ==
  IF row.key \in TradeKeys(tbl)
    THEN {IF r.key = row.key
            THEN [r EXCEPT !.amount_in_usd = row.amount_in_usd,
                           !.amount_out_usd = row.amount_out_usd,
                           !.price_token0_usd = row.price_token0_usd,
                           !.price_token1_usd = row.price_token1_usd]
            ELSE r : r \in tbl}
    ELSE tbl \cup {row}

\* INSERT INTO trades ... ON CONFLICT (transaction_hash, log_index) DO NOTHING
InsertTradeOrIgnore(tbl, row) ==
  IF row.key \in TradeKeys(tbl) THEN tbl ELSE tbl \cup {row}

\* INSERT INTO token_metrics ... ON CONFLICT (token_address, timestamp) DO UPDATE SET
\* price_usd, price_opn, ...
\* price_usd, price_opn, ...; the statement of updateTokenMetricsForPair, whose
\* VALUES give price_change_24h as 0 and leave the other price_change columns
\* NULL; the conflict update keeps the price_change columns of the row
UpsertTokenMetric(metrics, token, ts, priceUSD, priceOPN) ==
  MapSet(metrics, <<token, ts>>,
         [price_usd |-> priceUSD, price_opn |-> priceOPN,
          changes |-> IF <<token, ts>> \in DOMAIN metrics THEN metrics[<<token, ts>>].changes
                      ELSE [change24h |-> RZero]])

\* the JavaScript numbers no NUMERIC(10, 2) column takes the value of a fraction
\* for: 0 / 0 and x / 0
NaN == <<0, 0>>
Infinity == <<1, 0>>

\* PriceCalculatorEnhanced.calculatePriceChange(newPrice, oldPrice); oldPrice is
\* a number, or the text node-postgres returns for a NUMERIC column, which is
\* never === 0 and which - and / convert to a number
calculatePriceChange(newPrice, oldPrice, oldIsText) ==
  IF ~oldIsText /\ oldPrice[1] = 0 THEN RZero
  ELSE IF oldPrice[1] = 0 THEN IF newPrice[1] = 0 THEN NaN ELSE Infinity
  ELSE RMul(RDiv(RAdd(newPrice, <<-oldPrice[1], oldPrice[2]>>), oldPrice), RInt(100))

\* SELECT price_usd FROM token_metrics WHERE token_address = $1 AND timestamp <= $2
\* ORDER BY timestamp DESC LIMIT 1: the keys of the rows returned
SelectLatestMetric(metrics, addr, t) ==
  {k \in DOMAIN metrics :
     /\ k[1] = addr /\ k[2] <= t
     /\ \A q \in DOMAIN metrics : (q[1] = addr /\ q[2] <= t) => q[2] <= k[2]}

\* the timeframes of calculatePriceChanges, in seconds
PriceChangeWindows ==
  [change5m |-> 300, change1h |-> 3600, change6h |-> 21600, change24h |-> 86400,
   change7d |-> 604800, change30d |-> 2592000]

\* calculatePriceChanges(tokenAddress, currentPrice):
\* previousPrice = result.rows[0]?.price_usd || currentPrice (a text is truthy)
calculatePriceChanges(metrics, addr, t, currentPrice) ==
  [w \in DOMAIN PriceChangeWindows |->
     LET rows == SelectLatestMetric(metrics, addr, t - PriceChangeWindows[w])
     IN  IF rows = {} THEN calculatePriceChange(currentPrice, currentPrice, FALSE)
         ELSE calculatePriceChange(currentPrice,
                                   metrics[CHOOSE k \in rows : TRUE].price_usd, TRUE)]

\* INSERT INTO token_metrics (...) VALUES (...) of calculateTokenMetrics
InsertTokenMetric(metrics, token, ts, priceUSD, priceOPN, priceChanges) ==
  MapSet(metrics, <<token, ts>>,
         [price_usd |-> priceUSD, price_opn |-> priceOPN, changes |-> priceChanges])

TokenRow(addr, symbol, seq) == [address |-> addr, symbol |-> symbol, created_at |-> seq]

\* a lookup by the address as it is spelled: WHERE address = $1
SelectTokenExact(tbl, addr) == {a \in DOMAIN tbl : a = addr}

\* SELECT * FROM tokens WHERE LOWER(address) = LOWER($1): the matching keys
SelectTokenByLower(tbl, addr) == {a \in DOMAIN tbl : ToLowerCase(a) = ToLowerCase(addr)}

\* INSERT INTO tokens ... ON CONFLICT (address) DO UPDATE SET symbol, name, ...
UpsertToken(tbl, addr, symbol, seq) ==
  IF addr \in DOMAIN tbl
    THEN [tbl EXCEPT ![addr].symbol = symbol]
    ELSE MapSet(tbl, addr, TokenRow(addr, symbol, seq))

PairRow(p, token0, token1, seq) ==
  [address |-> p, token0 |-> token0, token1 |-> token1,
   reserve0 |-> ChainPair(p).reserve0, reserve1 |-> ChainPair(p).reserve1,
   created_at |-> seq]

\* the constraints of a pairs table whose token columns reference nothing:
\* UNIQUE(token0, token1, factory) alone
PairConstraintsNoReference(pairsTbl, tokensTbl, token0, token1) ==
  \A q \in DOMAIN pairsTbl :
    <<pairsTbl[q].token0, pairsTbl[q].token1>> # <<token0, token1>>

\* the constraints of CREATE TABLE pairs on a new row: token0 and token1
\* REFERENCES tokens(address), UNIQUE(token0, token1, factory)
PairConstraints(pairsTbl, tokensTbl, token0, token1) ==
  /\ token0 \in DOMAIN tokensTbl
  /\ token1 \in DOMAIN tokensTbl
  /\ \A q \in DOMAIN pairsTbl :
       <<pairsTbl[q].token0, pairsTbl[q].token1>> # <<token0, token1>>

\* INSERT INTO pairs ... ON CONFLICT (address) DO UPDATE SET reserve0, reserve1, ...:
\* the table after the statement, ok = FALSE when it raised an error
UpsertPair(pairsTbl, tokensTbl, p, token0, token1, seq) ==
  IF p \in DOMAIN pairsTbl
    THEN [ok |-> TRUE,
          pairs |-> [pairsTbl EXCEPT ![p].reserve0 = ChainPair(p).reserve0,
                                     ![p].reserve1 = ChainPair(p).reserve1]]
  ELSE IF PairConstraints(pairsTbl, tokensTbl, token0, token1)
    THEN [ok |-> TRUE, pairs |-> MapSet(pairsTbl, p, PairRow(p, token0, token1, seq))]
  ELSE [ok |-> FALSE, pairs |-> pairsTbl]

----------------------------------------------------------------------------
(* EnhancedDexIndexer: token and pair registration *)

PairInfo(token0, token1) == [token0 |-> token0, token1 |-> token1]

NoTask == [pc |-> "none", address |-> ToLowerCase(Checksummed(0)), symbol |-> "", queried |-> FALSE]
NewTask(addr) == [NoTask EXCEPT !.pc = "select", !.address = addr]
TaskEnded(task) == task.pc \in {"done", "failed"}

\* one step of indexToken(task.address), from one await to the next: the task,
\* the tokens table, tokensCache and the commit counter after it.
\* The last step is the INSERT with the verification SELECT that follows it:
\* no statement deletes a token, so the SELECT reads the table the INSERT left.
\* dbOk: the INSERT is accepted; when the database rejects it (a symbol longer
\* than VARCHAR(50), a lost connection) the catch logs and rethrows
indexToken(task, dbOk) ==
  LET addr == task.address
      normalizedAddress == ToLowerCase(addr)
      existing == SelectTokenByLower(tokens, addr)
      same == [task |-> task, tokens |-> tokens, cache |-> tokensCache, seq |-> dbSeq]
      inserted == UpsertToken(tokens, addr, task.symbol, dbSeq + 1)
  IN  CASE task.pc = "select" ->
             IF existing # {}
               THEN [same EXCEPT !.task.pc = "done",
                                 !.cache = MapSet(tokensCache, normalizedAddress,
                                                  tokens[CHOOSE a \in existing : TRUE])]
             ELSE IF normalizedAddress \in DOMAIN tokensCache
               THEN [same EXCEPT !.task.pc = "recheck"]
             ELSE [same EXCEPT !.task.pc = "chain"]
        [] task.pc = "recheck" ->
             [same EXCEPT !.task.pc = IF existing # {} THEN "done" ELSE "chain"]
        [] task.pc = "chain" ->
             [same EXCEPT !.task.pc = "insert", !.task.queried = TRUE,
                          !.task.symbol = ChainSymbol(addr.id)]
        [] task.pc = "insert" /\ ~dbOk -> [same EXCEPT !.task.pc = "failed"]
        [] OTHER ->
             [task |-> [task EXCEPT !.pc = IF SelectTokenByLower(inserted, addr) # {}
                                            THEN "done" ELSE "failed"],
              tokens |-> inserted,
              cache |-> MapSet(tokensCache, normalizedAddress, inserted[addr]),
              seq |-> IF addr \in DOMAIN tokens THEN dbSeq ELSE dbSeq + 1]

\* uniqueTokens.add(x): a Set keeps insertion order and no duplicates
SetAdd(seq, x) == IF \E j \in DOMAIN seq : seq[j] = x THEN seq ELSE Append(seq, x)

SyncIdle == [pc |-> "start", i |-> 1, uniqueTokens |-> <<>>, pairDataArray |-> <<>>,
             task |-> NoTask]
SyncDone == [SyncIdle EXCEPT !.pc = "done"]

\* syncPairs: factory.allPairsLength(); an RPC error ends the sync (outer catch)
SyncStart(rpcOk) ==
  /\ sync.pc = "start"
  /\ sync' = IF rpcOk THEN [sync EXCEPT !.pc = "collect"] ELSE SyncDone
  /\ UNCHANGED <<fanoutVars, dbVars, cacheVars, now, handlers, delivered, jobVars, historyVars>>

\* Step 1 for pair i: token0, token1, getReserves, totalSupply; an RPC error skips it
SyncCollect(rpcOk) ==
  /\ sync.pc = "collect"
  /\ LET chain == ChainPair(sync.i)
         more == sync.i < NumPairs
     IN  sync' = [sync EXCEPT
           !.i = @ + 1,
           !.pc = IF more THEN "collect" ELSE "index",
           !.uniqueTokens = IF rpcOk
                              THEN SetAdd(SetAdd(@, ToLowerCase(chain.token0)),
                                          ToLowerCase(chain.token1))
                              ELSE @,
           !.pairDataArray = IF rpcOk THEN Append(@, sync.i) ELSE @]
  /\ UNCHANGED <<fanoutVars, dbVars, cacheVars, now, handlers, delivered, jobVars, historyVars>>

\* Step 2: await this.indexToken(tokenAddress) for the next unique token, one
\* await at a time
SyncIndexToken(dbOk) ==
  /\ sync.pc = "index"
  /\ sync.task.pc # "failed"
  /\ sync.task.pc \in {"none", "done"} => sync.uniqueTokens # <<>>
  /\ LET starts == sync.task.pc \in {"none", "done"}
         task == IF starts THEN NewTask(Head(sync.uniqueTokens)) ELSE sync.task
         r == indexToken(task, dbOk)
     IN  /\ sync' = [sync EXCEPT !.task = r.task,
                                 !.uniqueTokens = IF starts THEN Tail(@) ELSE @]
         /\ tokens' = r.tokens
         /\ tokensCache' = r.cache
         /\ dbSeq' = r.seq
  /\ UNCHANGED <<fanoutVars, pairs, trades, candles, tokenMetrics, tradeSeq, pairsCache,
                 priceCache, calcCache, now, handlers, delivered, jobVars, historyVars>>

\* indexPairWithData(pairData): tokens from the cache, else from the database;
\* the pair row carries the token addresses as the tokens table spells them
indexPairWithData(p) ==
  LET chain == ChainPair(p)
      normalizedToken0 == ToLowerCase(chain.token0)
      normalizedToken1 == ToLowerCase(chain.token1)
      cached == {normalizedToken0, normalizedToken1} \subseteq DOMAIN tokensCache
      found0 == SelectTokenByLower(tokens, chain.token0)
      found1 == SelectTokenByLower(tokens, chain.token1)
      missing == ~cached /\ (found0 = {} \/ found1 = {})
      cache == IF cached THEN tokensCache
               ELSE MapSet(MapSet(tokensCache, normalizedToken0,
                                  tokens[CHOOSE a \in found0 : TRUE]),
                           normalizedToken1, tokens[CHOOSE a \in found1 : TRUE])
      token0 == cache[normalizedToken0].address
      token1 == cache[normalizedToken1].address
      upsert == UpsertPair(pairs, tokens, p, token0, token1, dbSeq + 1)
  IN  IF missing
        THEN [ok |-> TRUE, pairs |-> pairs, tokensCache |-> tokensCache,
              pairsCache |-> pairsCache]
      ELSE IF ~upsert.ok
        THEN [ok |-> FALSE, pairs |-> pairs, tokensCache |-> cache,
              pairsCache |-> pairsCache]
      ELSE [ok |-> TRUE, pairs |-> upsert.pairs, tokensCache |-> cache,
            pairsCache |-> MapSet(pairsCache, p, PairInfo(token0, token1))]

\* Step 3: await this.indexPairWithData(pairData) for the next collected pair; a
\* database error ends the sync (outer catch)
SyncIndexPair ==
  /\ sync.pc = "index"
  /\ sync.task.pc \in {"none", "done"}
  /\ sync.uniqueTokens = <<>>
  /\ sync.pairDataArray # <<>>
  /\ LET r == indexPairWithData(Head(sync.pairDataArray))
     IN  /\ pairs' = r.pairs
         /\ tokensCache' = r.tokensCache
         /\ pairsCache' = r.pairsCache
         /\ dbSeq' = IF DOMAIN r.pairs = DOMAIN pairs THEN dbSeq ELSE dbSeq + 1
         /\ sync' = IF r.ok THEN [sync EXCEPT !.pairDataArray = Tail(@)] ELSE SyncDone
  /\ UNCHANGED <<fanoutVars, tokens, trades, candles, tokenMetrics, tradeSeq, priceCache,
                 calcCache, now, handlers, delivered, jobVars, historyVars>>

\* syncPairs returns: all pairs synced, or an indexToken error reached the catch
SyncFinish ==
  /\ sync.pc = "index"
  /\ \/ sync.task.pc = "failed"
     \/ /\ sync.task.pc \in {"none", "done"}
        /\ sync.uniqueTokens = <<>>
        /\ sync.pairDataArray = <<>>
  /\ sync' = SyncDone
  /\ UNCHANGED <<fanoutVars, dbVars, cacheVars, now, handlers, delivered, jobVars, historyVars>>

----------------------------------------------------------------------------
(* EnhancedDexIndexer: the event listener, indexPair and handleSwap *)

Handlers == 1..NumHandlers

IdleHandler == [pc |-> "idle", log |-> 0, seq |-> 0, priceData |-> Null,
                tok |-> <<NoTask, NoTask>>]

Running(h) == handlers[h].pc # "idle"

\* callbacks have no identity: a new one takes the lowest free slot
FreeSlot(h) == handlers[h].pc = "idle" /\ \A g \in Handlers : g < h => Running(g)

\* provider.on(filter, ...): a log is delivered (again) and its callback starts
\* indexPair, which returns at once for a cached pair
Deliver(h, i) ==
  /\ sync.pc = "done"
  /\ FreeSlot(h)
  /\ delivered < MaxDeliveries
  /\ ChainLog(i).blockTimestamp <= now
  /\ delivered' = delivered + 1
  /\ handlers' = [handlers EXCEPT ![h] =
       [IdleHandler EXCEPT
          !.pc = IF ChainLog(i).address \in DOMAIN pairsCache THEN "reserves" ELSE "pairRead",
          !.log = i, !.seq = delivered + 1]]
  /\ UNCHANGED <<fanoutVars, dbVars, cacheVars, now, sync, jobVars, historyVars>>

\* indexPair: token0, token1, getReserves, totalSupply of the pair contract; an
\* RPC error is caught and logged
IndexPairRead(h, rpcOk) ==
  /\ handlers[h].pc = "pairRead"
  /\ LET chain == ChainPair(ChainLog(handlers[h].log).address)
     IN  handlers' = [handlers EXCEPT
           ![h].pc = IF rpcOk THEN "tokens" ELSE "lookup",
           ![h].tok = IF rpcOk THEN <<NewTask(chain.token0), NewTask(chain.token1)>> ELSE @]
  /\ UNCHANGED <<fanoutVars, dbVars, cacheVars, now, delivered, sync, jobVars, historyVars>>

\* indexPair: Promise.all([indexToken(token0), indexToken(token1)]), one await of
\* one of the two calls
IndexPairToken(h, k, dbOk) ==
  /\ handlers[h].pc = "tokens"
  /\ ~TaskEnded(handlers[h].tok[k])
  /\ LET r == indexToken(handlers[h].tok[k], dbOk)
     IN  /\ handlers' = [handlers EXCEPT ![h].tok[k] = r.task]
         /\ tokens' = r.tokens
         /\ tokensCache' = r.cache
         /\ dbSeq' = r.seq
  /\ UNCHANGED <<fanoutVars, pairs, trades, candles, tokenMetrics, tradeSeq, pairsCache,
                 priceCache, calcCache, now, delivered, sync, jobVars, historyVars>>

\* indexPair after both indexToken calls and the 100 ms wait: token infos from
\* the cache, INSERT INTO pairs with the addresses the chain returned,
\* pairsCache.set; an indexToken error or a database error is caught and logged
IndexPairInsert(h) ==
  /\ handlers[h].pc = "tokens"
  /\ TaskEnded(handlers[h].tok[1]) /\ TaskEnded(handlers[h].tok[2])
  /\ LET p == ChainLog(handlers[h].log).address
         chain == ChainPair(p)
         failed == \E k \in {1, 2} : handlers[h].tok[k].pc = "failed"
         hasInfo(t) == ToLowerCase(t) \in DOMAIN tokensCache \/ t \in DOMAIN tokensCache
         skipped == ~hasInfo(chain.token0) \/ ~hasInfo(chain.token1)
         upsert == UpsertPair(pairs, tokens, p, chain.token0, chain.token1, dbSeq + 1)
     IN  IF failed \/ skipped \/ ~upsert.ok
           THEN UNCHANGED <<pairs, dbSeq, pairsCache>>
           ELSE /\ pairs' = upsert.pairs
                /\ dbSeq' = IF p \in DOMAIN pairs THEN dbSeq ELSE dbSeq + 1
                /\ pairsCache' = MapSet(pairsCache, p, PairInfo(chain.token0, chain.token1))
  /\ handlers' = [handlers EXCEPT ![h].pc = "lookup"]
  /\ UNCHANGED <<fanoutVars, tokens, trades, candles, tokenMetrics, tradeSeq, tokensCache,
                 priceCache, calcCache, now, delivered, sync, jobVars, historyVars>>

\* a callback that goes on to handleSwap whether or not its pair is cached
PairLookupAlways(h) ==
  /\ handlers[h].pc = "lookup"
  /\ handlers' = [handlers EXCEPT ![h].pc = "reserves"]
  /\ UNCHANGED <<fanoutVars, dbVars, cacheVars, now, delivered, sync, jobVars, historyVars>>

\* pairInfo = this.pairsCache.get(pairAddress); if (!pairInfo) return
PairLookup(h) ==
  /\ handlers[h].pc = "lookup"
  /\ handlers' = [handlers EXCEPT ![h] =
       IF ChainLog(handlers[h].log).address \in DOMAIN pairsCache
         THEN [@ EXCEPT !.pc = "reserves"] ELSE IdleHandler]
  /\ UNCHANGED <<fanoutVars, dbVars, cacheVars, now, delivered, sync, jobVars, historyVars>>

\* the trade row handleSwap inserts for a log, its prices and its pair
SwapTradeRow(id, log, pairInfo, priceData) ==
  LET sellsToken0 == log.amount0In > 0 /\ log.amount1Out > 0
      isBuyingToken0 == ~sellsToken0
      amountInToken == IF sellsToken0 THEN log.amount0In ELSE log.amount1In
      p0 == priceData.token0Price.priceInUSD
      p1 == priceData.token1Price.priceInUSD
      amountInUSD == IF sellsToken0 THEN RMul(RInt(log.amount0In), p0)
                     ELSE RMul(RInt(log.amount1In), p1)
      amountOutUSD == IF sellsToken0 THEN RMul(RInt(log.amount1Out), p1)
                      ELSE RMul(RInt(log.amount0Out), p0)
      token0IsWOPN == ToLowerCase(pairInfo.token0) = WOPN_ADDRESS
      token1IsWOPN == ToLowerCase(pairInfo.token1) = WOPN_ADDRESS
      baseIsToken0 == IF RPos(p0) /\ RPos(p1) THEN RLt(p0, p1) ELSE TRUE
      tradeType ==
        IF token0IsWOPN THEN (IF isBuyingToken0 THEN "sell" ELSE "buy")
        ELSE IF token1IsWOPN THEN (IF isBuyingToken0 THEN "buy" ELSE "sell")
        ELSE IF baseIsToken0 THEN (IF isBuyingToken0 THEN "buy" ELSE "sell")
        ELSE (IF isBuyingToken0 THEN "sell" ELSE "buy")
      chain == ChainPair(log.address)
      reserveIn == IF isBuyingToken0 THEN chain.reserve1 ELSE chain.reserve0
      reserveOut == IF isBuyingToken0 THEN chain.reserve0 ELSE chain.reserve1
  IN  [id |-> id, key |-> log.key, timestamp |-> log.blockTimestamp,
       pair_address |-> log.address,
       token0_amount |-> IF log.amount0In > 0 THEN log.amount0In ELSE log.amount0Out,
       token1_amount |-> IF log.amount1In > 0 THEN log.amount1In ELSE log.amount1Out,
       amount_in_usd |-> amountInUSD, amount_out_usd |-> amountOutUSD,
       price_token0_usd |-> p0, price_token1_usd |-> p1,
       price_token0_opn |-> priceData.token0Price.priceInOPN,
       price_token1_opn |-> priceData.token1Price.priceInOPN,
       trade_type |-> tradeType,
       price_impact |-> calculatePriceImpact(amountInToken, reserveIn, reserveOut)]

\* updateTokenMetricsForPair: one token_metrics row per token of the pair, keyed by
\* the lower-case address; a foreign-key violation ends the loop (caught and logged)
updateTokenMetricsForPair(metrics, tokensTbl, pairInfo, priceData, ts) ==
  LET a0 == ToLowerCase(pairInfo.token0)
      a1 == ToLowerCase(pairInfo.token1)
      after0 == UpsertTokenMetric(metrics, a0, ts, priceData.token0Price.priceInUSD,
                                  priceData.token0Price.priceInOPN)
  IN  IF a0 \notin DOMAIN tokensTbl THEN metrics
      ELSE IF a1 \notin DOMAIN tokensTbl THEN after0
      ELSE UpsertTokenMetric(after0, a1, ts, priceData.token1Price.priceInUSD,
                             priceData.token1Price.priceInOPN)

\* the price the calculator resolves for a log at this moment
SwapPrice(log) ==
  calculateSwapPrice(calcCache, tokenMetrics, pairs, now,
                     pairsCache[log.address].token0, pairsCache[log.address].token1,
                     log.amount0In, log.amount1In, log.amount0Out, log.amount1Out, TRUE)

\* this.priceCache.set(`${log.address}:token0`, ...), ...:token1
SetPriceCache(cache, log, priceData) ==
  MapSet(MapSet(cache, <<log.address, "token0">>, priceData.token0Price.priceInUSD),
         <<log.address, "token1">>, priceData.token1Price.priceInUSD)

\* history: an INSERT INTO trades statement for the row completed
StoredAfter(row) == stored \cup {row.key}
FirstStoredAfter(row) ==
  IF row.key \in DOMAIN firstStored THEN firstStored ELSE MapSet(firstStored, row.key, row)

\* history: the handler of delivery seq wrote its prices to priceCache and finished
LastDoneAfter(log, seq, priceData) ==
  IF log.address \in DOMAIN lastDone /\ lastDone[log.address].seq > seq
    THEN lastDone
    ELSE MapSet(lastDone, log.address,
                [seq |-> seq, token0 |-> priceData.token0Price.priceInUSD,
                 token1 |-> priceData.token1Price.priceInUSD])

\* a getReserves rejection that nothing catches: the process ends and every
\* running callback with it
SwapGetReservesUncaught(h, rpcOk) ==
  /\ handlers[h].pc = "reserves"
  /\ handlers' = IF rpcOk THEN [handlers EXCEPT ![h].pc = "price"]
                 ELSE [g \in Handlers |-> IdleHandler]
  /\ UNCHANGED <<fanoutVars, dbVars, cacheVars, now, delivered, sync, jobVars, historyVars>>

\* 1. pairContract.getReserves(); an RPC error is caught and logged
SwapGetReserves(h, rpcOk) ==
  /\ handlers[h].pc = "reserves"
  /\ handlers' = [handlers EXCEPT ![h] = IF rpcOk THEN [@ EXCEPT !.pc = "price"]
                                         ELSE IdleHandler]
  /\ UNCHANGED <<fanoutVars, dbVars, cacheVars, now, delivered, sync, jobVars, historyVars>>

\* 2. PriceCalculatorEnhanced.calculateSwapPrice; null ends the handler
SwapCalculatePrice(h) ==
  /\ handlers[h].pc = "price"
  /\ LET calc == SwapPrice(ChainLog(handlers[h].log))
     IN  /\ calcCache' = calc.cache
         /\ handlers' = [handlers EXCEPT ![h] =
              IF calc.result = Null THEN IdleHandler
              ELSE [@ EXCEPT !.pc = "txinfo", !.priceData = calc.result]]
  /\ UNCHANGED <<fanoutVars, dbVars, pairsCache, tokensCache, priceCache, now, delivered,
                 sync, jobVars, historyVars>>

\* 6. getTransaction, getTransactionReceipt, getBlock
SwapGetTransaction(h, rpcOk) ==
  /\ handlers[h].pc = "txinfo"
  /\ handlers' = [handlers EXCEPT ![h] = IF rpcOk THEN [@ EXCEPT !.pc = "insert"]
                                         ELSE IdleHandler]
  /\ UNCHANGED <<fanoutVars, dbVars, cacheVars, now, delivered, sync, jobVars, historyVars>>

\* 7. INSERT INTO trades; pair_address REFERENCES pairs(address)
SwapInsertTrade(h) ==
  /\ handlers[h].pc = "insert"
  /\ LET log == ChainLog(handlers[h].log)
         row == SwapTradeRow(tradeSeq + 1, log, pairsCache[log.address],
                             handlers[h].priceData)
     IN  IF log.address \in DOMAIN pairs
           THEN /\ trades' = InsertTradeOrUpdate(trades, row)
                /\ stored' = StoredAfter(row)
                /\ firstStored' = FirstStoredAfter(row)
                /\ handlers' = [handlers EXCEPT ![h].pc = "metrics"]
           ELSE /\ UNCHANGED <<trades, stored, firstStored>>
                /\ handlers' = [handlers EXCEPT ![h] = IdleHandler]
  /\ tradeSeq' = tradeSeq + 1
  /\ UNCHANGED <<fanoutVars, tokens, pairs, candles, tokenMetrics, dbSeq, cacheVars, now,
                 delivered, sync, jobVars, lastDone, candleRuns, priceCall, published>>

\* updateTokenMetricsForPair(log.address, priceData, timestamp)
SwapUpdateMetrics(h) ==
  /\ handlers[h].pc = "metrics"
  /\ LET log == ChainLog(handlers[h].log)
     IN  tokenMetrics' = updateTokenMetricsForPair(tokenMetrics, tokens,
                           pairsCache[log.address], handlers[h].priceData,
                           log.blockTimestamp)
  /\ handlers' = [handlers EXCEPT ![h].pc = "publish"]
  /\ UNCHANGED <<fanoutVars, tokens, pairs, trades, candles, dbSeq, tradeSeq, cacheVars,
                 now, delivered, sync, jobVars, historyVars>>

\* 8.-10. priceCache.set, redis.publish, wsServer.emit
SwapPublish(h) ==
  /\ handlers[h].pc = "publish"
  /\ LET log == ChainLog(handlers[h].log)
     IN  /\ priceCache' = SetPriceCache(priceCache, log, handlers[h].priceData)
         /\ lastDone' = LastDoneAfter(log, handlers[h].seq, handlers[h].priceData)
         /\ published' = published \cup {log.key}
  /\ handlers' = [handlers EXCEPT ![h] = IdleHandler]
  /\ UNCHANGED <<fanoutVars, dbVars, pairsCache, tokensCache, calcCache, now, delivered,
                 sync, jobVars, stored, firstStored, candleRuns, priceCall>>

\* handleSwap from its first statement to its last with no other callback of the
\* indexer running in between and every RPC call answered
HandleSwapRun(i) ==
  /\ sync.pc = "done"
  /\ delivered < MaxSwaps
  /\ ChainLog(i).blockTimestamp <= now
  /\ ChainLog(i).address \in DOMAIN pairsCache
  /\ delivered' = delivered + 1
  /\ LET log == ChainLog(i)
         calc == SwapPrice(log)
         row == SwapTradeRow(tradeSeq + 1, log, pairsCache[log.address], calc.result)
     IN  /\ calcCache' = calc.cache
         /\ IF calc.result = Null \/ log.address \notin DOMAIN pairs
              THEN UNCHANGED <<trades, tradeSeq, tokenMetrics, priceCache, stored,
                               firstStored, lastDone, published>>
              ELSE /\ trades' = InsertTradeOrUpdate(trades, row)
                   /\ tradeSeq' = tradeSeq + 1
                   /\ stored' = StoredAfter(row)
                   /\ firstStored' = FirstStoredAfter(row)
                   /\ tokenMetrics' = updateTokenMetricsForPair(tokenMetrics, tokens,
                                        pairsCache[log.address], calc.result,
                                        log.blockTimestamp)
                   /\ priceCache' = SetPriceCache(priceCache, log, calc.result)
                   /\ lastDone' = LastDoneAfter(log, delivered + 1, calc.result)
                   /\ published' = published \cup {log.key}
  /\ UNCHANGED <<fanoutVars, tokens, pairs, candles, dbSeq, pairsCache, tokensCache, now,
                 handlers, sync, jobVars, candleRuns, priceCall>>

\* the wall clock advances, as long as the run is followed (up to `limit`)
TickTo(limit) ==
  /\ now + TickSeconds <= limit
  /\ now' = now + TickSeconds
  /\ UNCHANGED <<fanoutVars, dbVars, cacheVars, handlers, delivered, sync, jobVars,
                 historyVars>>

Tick == TickTo(MaxNow)

----------------------------------------------------------------------------
(* SwapProcessor *)

\* the trade row processSwap inserts for a log and its prices
ProcessTradeRow(id, log, pairInfo, priceData) ==
  LET token0IsWOPN == ToLowerCase(pairInfo.token0) = WOPN_ADDRESS
      token1IsWOPN == ToLowerCase(pairInfo.token1) = WOPN_ADDRESS
      sellsToken0 == log.amount0In > 0 /\ log.amount1Out > 0
      tradeType == IF sellsToken0 THEN (IF token0IsWOPN THEN "buy" ELSE "sell")
                   ELSE (IF token1IsWOPN THEN "buy" ELSE "sell")
      chain == ChainPair(log.address)
      reserveIn == IF log.amount0In > 0 THEN chain.reserve0 ELSE chain.reserve1
      reserveOut == IF log.amount0In > 0 THEN chain.reserve1 ELSE chain.reserve0
      amountIn == IF log.amount0In > 0 THEN log.amount0In ELSE log.amount1In
  IN  [id |-> id, key |-> log.key, timestamp |-> log.blockTimestamp,
       pair_address |-> log.address,
       token0_amount |-> IF log.amount0In > 0 THEN log.amount0In ELSE -log.amount0Out,
       token1_amount |-> IF log.amount1In > 0 THEN log.amount1In ELSE -log.amount1Out,
       amount_in_usd |-> priceData.volumeUSD24h, amount_out_usd |-> priceData.volumeUSD24h,
       price_token0_usd |-> priceData.token0Price.priceInUSD,
       price_token1_usd |-> priceData.token1Price.priceInUSD,
       price_token0_opn |-> priceData.token0Price.priceInOPN,
       price_token1_opn |-> priceData.token1Price.priceInOPN,
       trade_type |-> tradeType,
       price_impact |-> calculatePriceImpact(amountIn, reserveIn, reserveOut)]

\* processSwap(log, timestamp) up to the price: the pair from the cache the
\* processor was constructed with (here the indexer's), calculateSwapPrice
ProcessSwapPrice(h, i) ==
  /\ sync.pc = "done"
  /\ FreeSlot(h)
  /\ delivered < MaxDeliveries
  /\ ChainLog(i).blockTimestamp <= now
  /\ delivered' = delivered + 1
  /\ IF ChainLog(i).address \notin DOMAIN pairsCache
       THEN UNCHANGED <<handlers, calcCache>>
       ELSE LET calc == SwapPrice(ChainLog(i))
            IN  /\ calcCache' = calc.cache
                /\ handlers' = [handlers EXCEPT ![h] =
                     IF calc.result = Null THEN IdleHandler
                     ELSE [IdleHandler EXCEPT !.pc = "processInsert", !.log = i,
                                              !.seq = delivered + 1,
                                              !.priceData = calc.result]]
  /\ UNCHANGED <<fanoutVars, dbVars, pairsCache, tokensCache, priceCache, now, sync,
                 jobVars, historyVars>>

\* processSwap: INSERT INTO trades ... DO NOTHING, redis.publish, wsServer.emit
ProcessSwapInsert(h) ==
  /\ handlers[h].pc = "processInsert"
  /\ LET log == ChainLog(handlers[h].log)
         row == ProcessTradeRow(tradeSeq + 1, log, pairsCache[log.address],
                                handlers[h].priceData)
     IN  IF log.address \in DOMAIN pairs
           THEN /\ trades' = InsertTradeOrIgnore(trades, row)
                /\ stored' = StoredAfter(row)
                /\ firstStored' = FirstStoredAfter(row)
                /\ published' = published \cup {log.key}
           ELSE UNCHANGED <<trades, stored, firstStored, published>>
  /\ tradeSeq' = tradeSeq + 1
  /\ handlers' = [handlers EXCEPT ![h] = IdleHandler]
  /\ UNCHANGED <<fanoutVars, tokens, pairs, candles, tokenMetrics, dbSeq, cacheVars, now,
                 delivered, sync, jobVars, lastDone, candleRuns, priceCall>>

\* an INSERT INTO trades rejected by the database whose handler went on to its
\* redis.publish
InsertRejectedPublished(h) ==
  /\ handlers[h].pc \in {"insert", "processInsert"}
  /\ tradeSeq' = tradeSeq + 1
  /\ handlers' = [handlers EXCEPT ![h] = IdleHandler]
  /\ published' = published \cup {ChainLog(handlers[h].log).key}
  /\ UNCHANGED <<fanoutVars, tokens, pairs, trades, candles, tokenMetrics, dbSeq,
                 cacheVars, now, delivered, sync, jobVars, stored, firstStored, lastDone,
                 candleRuns, priceCall>>

\* the INSERT INTO trades rejected by the database (the id drawn from the
\* sequence is consumed): handleSwap's await throws into its catch,
\* processSwap's catch logs the error; neither reaches its redis.publish
InsertRejected(h) ==
  /\ handlers[h].pc \in {"insert", "processInsert"}
  /\ tradeSeq' = tradeSeq + 1
  /\ handlers' = [handlers EXCEPT ![h] = IdleHandler]
  /\ UNCHANGED <<fanoutVars, tokens, pairs, trades, candles, tokenMetrics, dbSeq,
                 cacheVars, now, delivered, sync, jobVars, historyVars>>

----------------------------------------------------------------------------
(* EnhancedDexIndexer: candle generation *)

Jobs == 1..NumJobs

\* the timeframes of startCandleGeneration the model runs, in the loop's order
JobTimeframes == <<"5m">>
TimeframeSeconds(tf) == IF tf = "1m" THEN 60 ELSE 300

IdleJob == [pc |-> "idle", tfs |-> <<>>, candleTime |-> 0, pairsLeft |-> {},
            pair |-> 0, rows |-> {}]

RECURSIVE SumRat(_, _)
SumRat(rows, field) ==
  IF rows = {} THEN RZero
  ELSE LET r == CHOOSE r \in rows : TRUE
       IN  RAdd(r[field], SumRat(rows \ {r}, field))

RECURSIVE SumInt(_, _)
SumInt(rows, field) ==
  IF rows = {} THEN 0
  ELSE LET r == CHOOSE r \in rows : TRUE
       IN  r[field] + SumInt(rows \ {r}, field)

RECURSIVE MaxRat(_, _)
MaxRat(rows, field) ==
  LET r == CHOOSE r \in rows : TRUE
  IN  IF rows = {r} THEN r[field] ELSE RMax(r[field], MaxRat(rows \ {r}, field))

RECURSIVE MinRat(_, _)
MinRat(rows, field) ==
  LET r == CHOOSE r \in rows : TRUE
  IN  IF rows = {r} THEN r[field] ELSE RMin(r[field], MinRat(rows \ {r}, field))

\* a SELECT of the pair's trades without the bounds on timestamp
SelectTradesOfPair(tbl, pair, from, to) == {r \in tbl : r.pair_address = pair}

\* SELECT * FROM trades WHERE pair_address = $1 AND timestamp >= $2 AND timestamp < $3
SelectTrades(tbl, pair, from, to) ==
  {r \in tbl : r.pair_address = pair /\ r.timestamp >= from /\ r.timestamp < to}

\* ORDER BY timestamp ASC leaves rows of equal timestamp in any order: the rows
\* that may come first and last
IsFirstTrade(rows, r) == r \in rows /\ \A q \in rows : r.timestamp <= q.timestamp
IsLastTrade(rows, r) == r \in rows /\ \A q \in rows : q.timestamp <= r.timestamp

\* candle values whose close is taken from the first row instead of the last
CandleValuesCloseFirst(firstTrade, lastTrade, rows) ==
  [open_usd |-> firstTrade.price_token0_usd,
   high_usd |-> MaxRat(rows, "price_token0_usd"),
   low_usd |-> MinRat(rows, "price_token0_usd"),
   close_usd |-> firstTrade.price_token0_usd,
   open_opn |-> firstTrade.price_token0_opn,
   high_opn |-> MaxRat(rows, "price_token0_opn"),
   low_opn |-> MinRat(rows, "price_token0_opn"),
   close_opn |-> firstTrade.price_token0_opn,
   volume_usd |-> SumRat(rows, "amount_in_usd"),
   volume_token0 |-> SumInt(rows, "token0_amount"),
   volume_token1 |-> SumInt(rows, "token1_amount")]

\* the values generateCandles passes to its INSERT INTO candles
CandleValues(firstTrade, lastTrade, rows) ==
  [open_usd |-> firstTrade.price_token0_usd,
   high_usd |-> MaxRat(rows, "price_token0_usd"),
   low_usd |-> MinRat(rows, "price_token0_usd"),
   close_usd |-> lastTrade.price_token0_usd,
   open_opn |-> firstTrade.price_token0_opn,
   high_opn |-> MaxRat(rows, "price_token0_opn"),
   low_opn |-> MinRat(rows, "price_token0_opn"),
   close_opn |-> lastTrade.price_token0_opn,
   volume_usd |-> SumRat(rows, "amount_in_usd"),
   volume_token0 |-> SumInt(rows, "token0_amount"),
   volume_token1 |-> SumInt(rows, "token1_amount")]

\* every candle one run of generateCandles can derive from the rows it selected
CandlesOf(rows) ==
  {CandleValues(f, l, rows) : <<f, l>> \in
     {fl \in rows \X rows : /\ IsFirstTrade(rows, fl[1])
                            /\ IsLastTrade(rows, fl[2])
                            /\ (Cardinality(rows) > 1 => fl[1] # fl[2])}}

\* an upsert whose conflict update sets close_usd and close_opn and the volumes
\* and leaves high and low as they are
UpsertCandleCloseOnly(tbl, key, new) ==
  IF key \in DOMAIN tbl
    THEN [tbl EXCEPT ![key] =
           [@ EXCEPT !.close_usd = new.close_usd,
                     !.close_opn = new.close_opn,
                     !.volume_usd = RAdd(@, new.volume_usd),
                     !.volume_token0 = @ + new.volume_token0,
                     !.volume_token1 = @ + new.volume_token1]]
    ELSE MapSet(tbl, key, new)

\* INSERT INTO candles ... ON CONFLICT (pair_address, timeframe, time) DO UPDATE SET ...
UpsertCandle(tbl, key, new) ==
  IF key \in DOMAIN tbl
    THEN [tbl EXCEPT ![key] =
           [@ EXCEPT !.high_usd = RMax(@, new.high_usd),
                     !.low_usd = RMin(@, new.low_usd),
                     !.close_usd = new.close_usd,
                     !.high_opn = RMax(@, new.high_opn),
                     !.low_opn = RMin(@, new.low_opn),
                     !.close_opn = new.close_opn,
                     !.volume_usd = RAdd(@, new.volume_usd),
                     !.volume_token0 = @ + new.volume_token0,
                     !.volume_token1 = @ + new.volume_token1]]
    ELSE MapSet(tbl, key, new)

\* history: the upsert of a candle read `rows` and left the row `candle`
CandleRunsAfter(key, rows, candle) ==
  IF key \in DOMAIN candleRuns
    THEN [candleRuns EXCEPT ![key].runs = @ + 1,
                            ![key].rows = rows,
                            ![key].same = @ /\ rows = candleRuns[key].firstRows]
    ELSE MapSet(candleRuns, key, [runs |-> 1, rows |-> rows, firstRows |-> rows,
                                  firstCandle |-> candle, same |-> TRUE])

\* generateCandles(timeframe, seconds) for the head of `tfs`, up to its first
\* SELECT of a pair's trades: candleTime, SELECT address FROM pairs (the pairs
\* table does not change while the timer runs); no timeframe left: the callback
\* returns
generateCandles(tfs, t) ==
  IF tfs = <<>> \/ DOMAIN pairs = {}
    THEN IdleJob
    ELSE LET seconds == TimeframeSeconds(Head(tfs))
         IN  [IdleJob EXCEPT !.pc = "select", !.tfs = tfs,
                             !.candleTime = (t \div seconds) * seconds,
                             !.pairsLeft = DOMAIN pairs]

\* the loop of generateCandles goes on to its next pair, or the loop of
\* startCandleGeneration to its next timeframe
NextPair(job, t) ==
  IF job.pairsLeft = {}
    THEN generateCandles(Tail(job.tfs), t)
    ELSE [job EXCEPT !.pc = "select", !.pair = 0, !.rows = {}]

\* the setInterval callback of startCandleGeneration starts, whether or not an
\* earlier one is still running
TimerFire(j) ==
  /\ sync.pc = "done"
  /\ jobs[j].pc = "idle" /\ \A g \in Jobs : g < j => jobs[g].pc # "idle"
  /\ now >= jobDueAt
  /\ jobDueAt' = jobDueAt + CANDLE_INTERVAL
  /\ jobs' = [jobs EXCEPT ![j] = generateCandles(JobTimeframes, now)]
  /\ UNCHANGED <<fanoutVars, dbVars, cacheVars, now, handlers, delivered, sync, metricsJob,
                 historyVars>>

\* the next pair of the loop: SELECT its trades of the bucket; none: continue
GenerateCandlesSelect(j) ==
  /\ jobs[j].pc = "select"
  /\ LET p == CHOOSE p \in jobs[j].pairsLeft : \A q \in jobs[j].pairsLeft : p <= q
         rows == SelectTrades(trades, p, jobs[j].candleTime,
                   jobs[j].candleTime + TimeframeSeconds(Head(jobs[j].tfs)))
         left == [jobs[j] EXCEPT !.pairsLeft = @ \ {p}]
     IN  jobs' = [jobs EXCEPT ![j] =
                    IF rows = {} THEN NextPair(left, now)
                    ELSE [left EXCEPT !.pc = "upsert", !.pair = p, !.rows = rows]]
  /\ UNCHANGED <<fanoutVars, dbVars, cacheVars, now, handlers, delivered, sync, jobDueAt,
                 metricsJob, historyVars>>

\* INSERT INTO candles for the pair's bucket
GenerateCandlesUpsert(j) ==
  /\ jobs[j].pc = "upsert"
  /\ \E new \in CandlesOf(jobs[j].rows) :
       LET key == <<jobs[j].pair, Head(jobs[j].tfs), jobs[j].candleTime>>
           tbl == UpsertCandle(candles, key, new)
       IN  /\ candles' = tbl
           /\ candleRuns' = CandleRunsAfter(key, jobs[j].rows, tbl[key])
  /\ jobs' = [jobs EXCEPT ![j] = NextPair(jobs[j], now)]
  /\ UNCHANGED <<fanoutVars, tokens, pairs, trades, tokenMetrics, dbSeq, tradeSeq, cacheVars,
                 now, handlers, delivered, sync, jobDueAt, metricsJob, stored, firstStored,
                 lastDone, priceCall, published>>

----------------------------------------------------------------------------
(* Initial states *)

\* EnhancedDexIndexer.METRICS_INTERVAL, in seconds
METRICS_INTERVAL == 60

\* no run of calculateTokenMetrics in progress; the timer fires next at dueAt
IdleMetrics(dueAt) == [pc |-> "idle", tokensLeft |-> {}, dueAt |-> dueAt]

\* SELECT * FROM pairs WHERE LOWER(token0) = LOWER($1) OR LOWER(token1) = LOWER($1)
PairsOfToken(tbl, addr) ==
  {p \in DOMAIN tbl : ToLowerCase(tbl[p].token0) = ToLowerCase(addr)
                         \/ ToLowerCase(tbl[p].token1) = ToLowerCase(addr)}

\* calculateTokenMetrics: the largest price priceCache holds for the token in one
\* of its pairs, 0 when it holds none
MetricsPriceUSD(addr) ==
  LET prs == PairsOfToken(pairs, addr)
      side(p) == IF ToLowerCase(pairs[p].token0) = ToLowerCase(addr) THEN "token0"
                 ELSE "token1"
      prices == {priceCache[<<p, side(p)>>] : p \in {q \in prs : <<q, side(q)>> \in DOMAIN priceCache}}
  IN  IF prices = {} THEN RZero
      ELSE CHOOSE x \in prices : \A y \in prices : ~RLt(x, y)

\* setInterval(() => calculateTokenMetrics(), METRICS_INTERVAL): a run starts
\* with SELECT address FROM tokens
MetricsFire ==
  /\ sync.pc = "done"
  /\ metricsJob.pc = "idle"
  /\ now >= metricsJob.dueAt
  /\ metricsJob' = IF DOMAIN tokens = {}
                     THEN IdleMetrics(metricsJob.dueAt + METRICS_INTERVAL)
                     ELSE [pc |-> "run", tokensLeft |-> DOMAIN tokens,
                           dueAt |-> metricsJob.dueAt + METRICS_INTERVAL]
  /\ UNCHANGED <<fanoutVars, dbVars, cacheVars, now, handlers, delivered, sync, jobs,
                 jobDueAt, historyVars>>

\* calculateTokenMetrics, one pass of for (const token of tokens.rows), the rows
\* in the order the SELECT returned them: a token without pairs is skipped;
\* INSERT INTO token_metrics has no ON CONFLICT, so a row of the same token and
\* second violates UNIQUE(token_address, timestamp), as an infinite price change
\* overflows its NUMERIC(10, 2) column, and the error leaves the loop for the
\* catch around it
MetricsToken(addr) ==
  /\ metricsJob.pc = "run"
  /\ addr \in metricsJob.tokensLeft
  /\ LET left == metricsJob.tokensLeft \ {addr}
         next == IF left = {} THEN IdleMetrics(metricsJob.dueAt)
                 ELSE [metricsJob EXCEPT !.tokensLeft = left]
         priceUSD == MetricsPriceUSD(addr)
         priceChanges == calculatePriceChanges(tokenMetrics, addr, now, priceUSD)
     IN  IF PairsOfToken(pairs, addr) = {}
           THEN /\ metricsJob' = next
                /\ UNCHANGED tokenMetrics
         ELSE IF \/ <<addr, now>> \in DOMAIN tokenMetrics
                 \/ \E w \in DOMAIN priceChanges : priceChanges[w] = Infinity
           THEN /\ metricsJob' = IdleMetrics(metricsJob.dueAt)
                /\ UNCHANGED tokenMetrics
         ELSE /\ metricsJob' = next
              /\ tokenMetrics' = InsertTokenMetric(tokenMetrics, addr, now, priceUSD,
                                                   RDiv(priceUSD, OPN_PRICE_USD),
                                                   priceChanges)
  /\ UNCHANGED <<fanoutVars, tokens, pairs, trades, candles, dbSeq, tradeSeq, cacheVars, now,
                 handlers, delivered, sync, jobs, jobDueAt, historyVars>>

\* the indexer after construction: empty maps, an empty database, nothing running
IndexerStart ==
  /\ tokens = <<>>
  /\ pairs = <<>>
  /\ trades = {}
  /\ candles = <<>>
  /\ tokenMetrics = <<>>
  /\ dbSeq = 0
  /\ tradeSeq = 0
  /\ pairsCache = <<>>
  /\ tokensCache = <<>>
  /\ priceCache = <<>>
  /\ calcCache = <<>>
  /\ now = StartTime
  /\ handlers = [h \in Handlers |-> IdleHandler]
  /\ delivered = 0
  /\ sync = SyncIdle
  /\ jobs = [j \in Jobs |-> IdleJob]
  /\ jobDueAt = StartTime + CANDLE_INTERVAL
  /\ metricsJob = IdleMetrics(StartTime + METRICS_INTERVAL)
  /\ stored = {}
  /\ firstStored = <<>>
  /\ lastDone = <<>>
  /\ priceCall = NoCall
  /\ candleRuns = <<>>
  /\ published = {}

\* the unique token addresses syncPairs has collected after the first n pairs
RECURSIVE UniqueTokens(_)
UniqueTokens(n) ==
  IF n = 0 THEN <<>>
  ELSE SetAdd(SetAdd(UniqueTokens(n - 1), ToLowerCase(ChainPair(n).token0)),
              ToLowerCase(ChainPair(n).token1))

\* the tables and caches syncPairs leaves when every call of it succeeded: the
\* tokens in the order of uniqueTokens, then the pairs
SyncedTokens(n) ==
  LET order == UniqueTokens(n)
  IN  [a \in {order[j] : j \in DOMAIN order} |->
         TokenRow(a, ChainSymbol(a.id), CHOOSE j \in DOMAIN order : order[j] = a)]

SyncedPairs(n) ==
  [p \in 1..n |->
     PairRow(p, ToLowerCase(ChainPair(p).token0), ToLowerCase(ChainPair(p).token1),
             Len(UniqueTokens(n)) + p)]

SyncedPairsCache(n) ==
  [p \in 1..n |-> PairInfo(SyncedPairs(n)[p].token0, SyncedPairs(n)[p].token1)]

\* the indexer when start() has awaited syncPairs and every call of it succeeded,
\* at time t, for a factory that lists n pairs; `slots` are the timer callbacks
\* that can be in flight at once
SyncedFrom(n, t, slots) ==
  /\ tokens = SyncedTokens(n)
  /\ pairs = SyncedPairs(n)
  /\ trades = {}
  /\ candles = <<>>
  /\ tokenMetrics = <<>>
  /\ dbSeq = Len(UniqueTokens(n)) + n
  /\ tradeSeq = 0
  /\ pairsCache = SyncedPairsCache(n)
  /\ tokensCache = SyncedTokens(n)
  /\ priceCache = <<>>
  /\ calcCache = <<>>
  /\ now = t
  /\ handlers = [h \in Handlers |-> IdleHandler]
  /\ delivered = 0
  /\ sync = SyncDone
  /\ jobs = [j \in slots |-> IdleJob]
  /\ jobDueAt = t + CANDLE_INTERVAL
  /\ metricsJob = IdleMetrics(t + METRICS_INTERVAL)
  /\ stored = {}
  /\ firstStored = <<>>
  /\ lastDone = <<>>
  /\ priceCall = NoCall
  /\ candleRuns = <<>>
  /\ published = {}

\* the factory lists NumPairs pairs
SyncedWith(t, slots) == SyncedFrom(NumPairs, t, slots)

SyncedAt(t) == SyncedWith(t, Jobs)
Synced == SyncedAt(StartTime)

----------------------------------------------------------------------------
(* Specifications *)

\* the websocket server and its clients
FanoutInit == FanoutStart /\ IndexerStart
SpecFanout == FanoutInit /\ [][FanoutNext]_vars

\* the indexer from construction: syncPairs, then the event callbacks up to the
\* pair lookup
RegistryInit == FanoutStart /\ IndexerStart
\* registration looks at the address of a log only: one log per pair
PairLogs ==
  {i \in LogIds : \A j \in LogIds : ChainLog(j).address = ChainLog(i).address => i <= j}
RegistryNext ==
  \/ \E rpcOk \in BOOLEAN : SyncStart(rpcOk)
  \/ \E rpcOk \in BOOLEAN : SyncCollect(rpcOk)
  \/ \E dbOk \in BOOLEAN : SyncIndexToken(dbOk)
  \/ SyncIndexPair
  \/ SyncFinish
  \/ \E h \in Handlers, i \in PairLogs : Deliver(h, i)
  \/ \E h \in Handlers, rpcOk \in BOOLEAN : IndexPairRead(h, rpcOk)
  \/ \E h \in Handlers, k \in {1, 2}, dbOk \in BOOLEAN : IndexPairToken(h, k, dbOk)
  \/ \E h \in Handlers : IndexPairInsert(h)
  \/ \E h \in Handlers : PairLookup(h)
SpecRegistry == RegistryInit /\ [][RegistryNext]_vars

\* the same system where every awaited query and RPC of a running callback and
\* of syncPairs settles: each pending step is eventually taken
SpecRetry == RegistryInit /\ [][RegistryNext]_vars /\ WF_vars(\E dbOk \in BOOLEAN : SyncIndexToken(dbOk)) /\ WF_vars(SyncIndexPair) /\ WF_vars(SyncFinish) /\ WF_vars(\E h \in Handlers, k \in {1, 2}, dbOk \in BOOLEAN : IndexPairToken(h, k, dbOk)) /\ WF_vars(\E h \in Handlers : IndexPairInsert(h)) /\ WF_vars(\E h \in Handlers : PairLookup(h))

\* the event callbacks of a synced indexer, await by await
SwapInit == FanoutStart /\ Synced
SwapNext ==
  \/ \E h \in Handlers, i \in LogIds : Deliver(h, i)
  \/ \E h \in Handlers, rpcOk \in BOOLEAN : SwapGetReserves(h, rpcOk)
  \/ \E h \in Handlers : SwapCalculatePrice(h)
  \/ \E h \in Handlers, rpcOk \in BOOLEAN : SwapGetTransaction(h, rpcOk)
  \/ \E h \in Handlers : SwapInsertTrade(h)
  \/ \E h \in Handlers : SwapUpdateMetrics(h)
  \/ \E h \in Handlers : SwapPublish(h)
  \/ \E h \in Handlers, i \in LogIds : ProcessSwapPrice(h, i)
  \/ \E h \in Handlers : ProcessSwapInsert(h)
SpecSwap == SwapInit /\ [][SwapNext]_vars

\* a handleSwap is waiting for calculateSwapPrice to resolve
PricePending == \E h \in Handlers : handlers[h].pc = "price"

\* weak fairness of the calculateSwapPrice step, with its enabling condition
\* written out
PriceStepFair == []<>(~PricePending) \/ []<><<\E h \in Handlers : SwapCalculatePrice(h)>>_vars

\* the same system where every await of a running handleSwap settles and the RPC
\* endpoint recovers: a read that is attempted again and again succeeds
SpecTransient == SwapInit /\ [][SwapNext]_vars /\ WF_vars(\E h \in Handlers, rpcOk \in BOOLEAN : SwapGetReserves(h, rpcOk)) /\ SF_vars(\E h \in Handlers : SwapGetReserves(h, TRUE)) /\ PriceStepFair /\ WF_vars(\E h \in Handlers, rpcOk \in BOOLEAN : SwapGetTransaction(h, rpcOk)) /\ SF_vars(\E h \in Handlers : SwapGetTransaction(h, TRUE)) /\ WF_vars(\E h \in Handlers : SwapInsertTrade(h)) /\ WF_vars(\E h \in Handlers : SwapUpdateMetrics(h)) /\ WF_vars(\E h \in Handlers : SwapPublish(h))

\* a synced indexer over time: whole swap handlers with replays, the clock and
\* the candle timer
ReplayInit == FanoutStart /\ Synced
ReplayNext ==
  \/ \E i \in LogIds : HandleSwapRun(i)
  \/ Tick
  \/ \E j \in Jobs : TimerFire(j)
  \/ \E j \in Jobs : GenerateCandlesSelect(j)
  \/ \E j \in Jobs : GenerateCandlesUpsert(j)
SpecReplay == ReplayInit /\ [][ReplayNext]_vars

\* the candle timer of a synced indexer while at most MaxDeliveries swaps arrive
CandleInit == FanoutStart /\ Synced
CandleNext ==
  \/ \E i \in LogIds : delivered < MaxDeliveries /\ HandleSwapRun(i)
  \/ Tick
  \/ \E j \in Jobs : TimerFire(j)
  \/ \E j \in Jobs : GenerateCandlesSelect(j)
  \/ \E j \in Jobs : GenerateCandlesUpsert(j)
SpecCandle == CandleInit /\ [][CandleNext]_vars

\* an indexer that came up late in the first 5-minute bucket and is followed
\* until that bucket has closed: the event loop runs every callback that is
\* ready, the timer fires when it is due and the clock advances; swaps arrive
\* or not
LateStart == 3 * CANDLE_INTERVAL
LateMaxNow == LateStart + MaxTicks * TickSeconds
ReconcileInit == FanoutStart /\ SyncedAt(LateStart)
ReconcileNext ==
  \/ \E i \in LogIds \cup {LateLog} : delivered < MaxDeliveries /\ HandleSwapRun(i)
  \/ TickTo(LateMaxNow)
  \/ \E j \in Jobs : TimerFire(j)
  \/ \E j \in Jobs : GenerateCandlesSelect(j)
  \/ \E j \in Jobs : GenerateCandlesUpsert(j)
\* the indexer from construction to the ledger and the candles: syncPairs, the
\* event callbacks with their registration of unknown pairs, await by await,
\* and the candle timer; start() sets the timer when syncPairs has returned, so
\* the clock is followed from then on
IngestInit == FanoutStart /\ IndexerStart
\* the clock of this specification stops after the first run of the candle job
IngestMaxNow == StartTime + TickSeconds
IngestNext ==
  \/ RegistryNext
  \/ \E h \in Handlers, rpcOk \in BOOLEAN : SwapGetReserves(h, rpcOk)
  \/ \E h \in Handlers : SwapCalculatePrice(h)
  \/ \E h \in Handlers, rpcOk \in BOOLEAN : SwapGetTransaction(h, rpcOk)
  \/ \E h \in Handlers : SwapInsertTrade(h)
  \/ \E h \in Handlers : SwapUpdateMetrics(h)
  \/ \E h \in Handlers : SwapPublish(h)
  \/ sync.pc = "done" /\ TickTo(IngestMaxNow)
  \/ \E j \in Jobs : TimerFire(j)
  \/ \E j \in Jobs : GenerateCandlesSelect(j)
  \/ \E j \in Jobs : GenerateCandlesUpsert(j)
SpecIngest == IngestInit /\ [][IngestNext]_vars

\* the indexer from construction to the publication of its swaps: syncPairs and
\* the registration of unknown pairs, handleSwap await by await and processSwap,
\* for one log of each pair and the log of a flash swap, with an INSERT INTO
\* trades that the database can reject
PublishInit == FanoutStart /\ IndexerStart
PublishNext ==
  \/ RegistryNext
  \/ \E h \in Handlers : Deliver(h, FlashLog)
  \/ \E h \in Handlers, rpcOk \in BOOLEAN : SwapGetReserves(h, rpcOk)
  \/ \E h \in Handlers : SwapCalculatePrice(h)
  \/ \E h \in Handlers, rpcOk \in BOOLEAN : SwapGetTransaction(h, rpcOk)
  \/ \E h \in Handlers : SwapInsertTrade(h)
  \/ \E h \in Handlers : SwapUpdateMetrics(h)
  \/ \E h \in Handlers : SwapPublish(h)
  \/ \E h \in Handlers, i \in PairLogs \cup {FlashLog} : ProcessSwapPrice(h, i)
  \/ \E h \in Handlers : ProcessSwapInsert(h)
  \/ \E h \in Handlers : InsertRejected(h)
SpecPublish == PublishInit /\ [][PublishNext]_vars

\* the candle timer when a run can still be in flight as the next one starts
\* (setInterval does not wait for the callback's promise): one more callback in
\* flight than the other specifications follow
OverlapJobs == 1..(NumJobs + 1)
OverlapInit == FanoutStart /\ SyncedWith(StartTime, OverlapJobs)
OverlapNext ==
  \/ \E i \in LogIds : delivered < MaxDeliveries /\ HandleSwapRun(i)
  \/ Tick
  \/ \E j \in OverlapJobs : TimerFire(j)
  \/ \E j \in OverlapJobs : GenerateCandlesSelect(j)
  \/ \E j \in OverlapJobs : GenerateCandlesUpsert(j)
SpecOverlap == OverlapInit /\ [][OverlapNext]_vars

SpecReconcile ==
  /\ ReconcileInit
  /\ [][ReconcileNext]_vars
  /\ WF_vars(TickTo(LateMaxNow))
  /\ WF_vars(\E j \in Jobs : TimerFire(j))
  /\ WF_vars(\E j \in Jobs : GenerateCandlesSelect(j))
  /\ WF_vars(\E j \in Jobs : GenerateCandlesUpsert(j))

\* a synced indexer with the metrics timer while swaps arrive, one of them mined
\* in the second of a metrics run
----------------------------------------------------------------------------
(* Direct calls of the price calculators *)

\* the addresses and the amounts (whole tokens) a caller passes
CallTokens == {Checksummed(id) : id \in 1..NumCallTokens} \cup {WOPN_ADDRESS}
CallAmounts == 0..MaxAmount

\* await PriceCalculatorEnhanced.calculateSwapPrice(token0, token1, ..., db) by a
\* caller in the indexer's process; one direct call is followed per behaviour
EnhancedCall(token0, token1, amount0In, amount1In, amount0Out, amount1Out, db) ==
  /\ priceCall = NoCall
  /\ LET calc == calculateSwapPrice(calcCache, tokenMetrics, pairs, now, token0, token1,
                                    amount0In, amount1In, amount0Out, amount1Out, db)
     IN  /\ calcCache' = calc.cache
         /\ priceCall' = Returned("PriceCalculatorEnhanced", token0, token1, amount0In,
                                  amount1In, amount0Out, amount1Out, db, calcCache, calc)
  /\ UNCHANGED <<fanoutVars, dbVars, pairsCache, tokensCache, priceCache, now, handlers,
                 delivered, sync, jobVars, stored, firstStored, lastDone, candleRuns, published>>

\* PriceCalculator.calculateSwapPrice(token0, token1, ...)
PriceCalculatorCall(token0, token1, amount0In, amount1In, amount0Out, amount1Out) ==
  /\ priceCall = NoCall
  /\ priceCall' = Returned("PriceCalculator", token0, token1, amount0In, amount1In,
                           amount0Out, amount1Out, FALSE, calcCache,
                           PriceCalculator_calculateSwapPrice(token0, token1, amount0In,
                             amount1In, amount0Out, amount1Out))
  /\ UNCHANGED <<fanoutVars, dbVars, cacheVars, now, handlers, delivered, sync, jobVars,
                 stored, firstStored, lastDone, candleRuns, published>>

\* the Swap log of a call: the amounts of the call on pair 1
CallLog(amount0In, amount1In, amount0Out, amount1Out) ==
  [key |-> 0, address |-> 1, blockTimestamp |-> now, amount0In |-> amount0In,
   amount1In |-> amount1In, amount0Out |-> amount0Out, amount1Out |-> amount1Out]

\* the trade type a handler gave a swap of a pair of token0 and token1; "none"
\* when the handler returned before it classified the swap
Classified(handler, token0, token1, amount0In, amount1In, amount0Out, amount1Out, tradeType) ==
  [pc |-> "classified", handler |-> handler, token0 |-> token0, token1 |-> token1,
   amount0In |-> amount0In, amount1In |-> amount1In, amount0Out |-> amount0Out,
   amount1Out |-> amount1Out, tradeType |-> tradeType]

\* handleSwap of the indexer built on PriceCalculator (part_006):
\* amount0In > 0n ? (token0 is WOPN ? 'sell' : 'buy') : (token1 is WOPN ? 'sell' : 'buy')
handleSwap_tradeType(token0, token1, amount0In) ==
  IF amount0In > 0
    THEN (IF ToLowerCase(token0) = WOPN_ADDRESS THEN "sell" ELSE "buy")
    ELSE (IF ToLowerCase(token1) = WOPN_ADDRESS THEN "sell" ELSE "buy")

\* the classification of a swap by one of the three handlers: EnhancedDexIndexer's
\* handleSwap, SwapProcessor.processSwap, and handleSwap of part_006
ClassifyCall(handler, token0, token1, amount0In, amount1In, amount0Out, amount1Out) ==
  /\ priceCall = NoCall
  /\ LET log == CallLog(amount0In, amount1In, amount0Out, amount1Out)
         calc == IF handler = "part_006"
                   THEN PriceCalculator_calculateSwapPrice(token0, token1, amount0In,
                                                           amount1In, amount0Out, amount1Out)
                   ELSE calculateSwapPrice(calcCache, tokenMetrics, pairs, now, token0,
                                           token1, amount0In, amount1In, amount0Out,
                                           amount1Out, TRUE)
         tradeType ==
           IF calc.result = Null THEN "none"
           ELSE IF handler = "handleSwap"
             THEN SwapTradeRow(0, log, PairInfo(token0, token1), calc.result).trade_type
           ELSE IF handler = "processSwap"
             THEN ProcessTradeRow(0, log, PairInfo(token0, token1), calc.result).trade_type
           ELSE handleSwap_tradeType(token0, token1, amount0In)
     IN  priceCall' = Classified(handler, token0, token1, amount0In, amount1In,
                                 amount0Out, amount1Out, tradeType)
  /\ UNCHANGED <<fanoutVars, dbVars, cacheVars, now, handlers, delivered, sync, jobVars,
                 stored, firstStored, lastDone, candleRuns, published>>

ClassifyInit == FanoutStart /\ SyncedAt(StartTime)
\* one swap is handled at most before the classified call is made
ClassifyNext ==
  \/ \E i \in LogIds : delivered = 0 /\ priceCall = NoCall /\ HandleSwapRun(i)
  \/ \E handler \in {"handleSwap", "processSwap", "part_006"}, token0, token1 \in CallTokens, amount0In, amount1In, amount0Out, amount1Out \in CallAmounts : ClassifyCall(handler, token0, token1, amount0In, amount1In, amount0Out, amount1Out)
SpecClassify == ClassifyInit /\ [][ClassifyNext]_vars

PriceInit == FanoutStart /\ SyncedAt(StartTime)
\* swaps are handled until the direct call is made
PriceNext ==
  \/ \E i \in LogIds : delivered < MaxDeliveries /\ priceCall = NoCall /\ HandleSwapRun(i)
  \/ \E token0, token1 \in CallTokens, amount0In, amount1In, amount0Out, amount1Out \in CallAmounts, db \in BOOLEAN : EnhancedCall(token0, token1, amount0In, amount1In, amount0Out, amount1Out, db)
  \/ \E token0, token1 \in CallTokens, amount0In, amount1In, amount0Out, amount1Out \in CallAmounts : PriceCalculatorCall(token0, token1, amount0In, amount1In, amount0Out, amount1Out)
SpecPrice == PriceInit /\ [][PriceNext]_vars

----------------------------------------------------------------------------
(* Price resolution of pairs without WOPN *)

\* the tokens of the calls: every token but WOPN
CrossTokens == {Checksummed(id) : id \in 2..NumCallTokens}

\* Date.now() is read again `step` seconds later
ClockStep(step, limit) ==
  /\ now + step <= limit
  /\ now' = now + step
  /\ UNCHANGED <<fanoutVars, dbVars, cacheVars, handlers, delivered, sync, jobVars,
                 historyVars>>

\* the clock is followed for one lifetime of a cache entry
ResolveMaxNow == StartTime + CACHE_TTL

\* the factory lists one pair more: pair NumPairs + 1 trades token NumPairs + 1
\* against WOPN
ResolveInit == FanoutStart /\ SyncedFrom(NumPairs + 1, StartTime, Jobs)
\* swaps are handled and time passes until the direct call is made; the call is
\* of a swap in one direction, amountIn of one token for amountOut of the other
ResolveNext ==
  \/ \E i \in LogIds : delivered < MaxDeliveries /\ priceCall = NoCall /\ HandleSwapRun(i)
  \/ \E step \in {CACHE_TTL - 1, CACHE_TTL} : priceCall = NoCall /\ ClockStep(step, ResolveMaxNow)
  \/ \E token0, token1 \in CrossTokens, amountIn, amountOut \in CallAmounts, zeroForOne, db \in BOOLEAN : IF zeroForOne THEN EnhancedCall(token0, token1, amountIn, 0, 0, amountOut, db) ELSE EnhancedCall(token0, token1, 0, amountIn, amountOut, 0, db)
SpecResolve == ResolveInit /\ [][ResolveNext]_vars

\* the metrics timer followed for twice five minutes, the shortest of the
\* timeframes of calculatePriceChanges; Date.now() is read again five minutes
\* later
ChangeMaxNow == LateStart + 2 * PriceChangeWindows.change5m
ChangeInit == FanoutStart /\ SyncedAt(LateStart)
ChangeNext ==
  \/ \E i \in LogIds : delivered < MaxDeliveries /\ HandleSwapRun(i)
  \/ ClockStep(PriceChangeWindows.change5m, ChangeMaxNow)
  \/ MetricsFire
  \/ \E addr \in DOMAIN tokens : MetricsToken(addr)
SpecChange == ChangeInit /\ [][ChangeNext]_vars

MetricsInit == FanoutStart /\ SyncedAt(LateStart)
MetricsNext ==
  \/ \E i \in LogIds \cup {LateLog} : delivered < MaxDeliveries /\ HandleSwapRun(i)
  \/ TickTo(LateMaxNow)
  \/ MetricsFire
  \/ \E addr \in DOMAIN tokens : MetricsToken(addr)
SpecMetrics == MetricsInit /\ [][MetricsNext]_vars

----------------------------------------------------------------------------
(* Properties *)

LogKeys == {ChainLog(i).key : i \in LogIds}
RowsOfKey(k) == {r \in trades : r.key = k}

\* C1: after any sequence of Swap deliveries, repeated ones included, the trades
\* table holds at most one row per (transaction_hash, log_index), and exactly one
\* row for every event whose insert succeeded at least once
C1_OneRowPerEvent ==
  \A k \in LogKeys : Cardinality(RowsOfKey(k)) = IF k \in stored THEN 1 ELSE 0

\* a second INSERT INTO trades ran for an event that already had its row
C1_ReplayAbsorbed ==
  /\ tradeSeq >= 2
  /\ \E k \in stored : trades = RowsOfKey(k) /\ Cardinality(trades) = 1

\* C2: in every reachable state each stored pair row references two token rows
\* that were committed before the pair row was inserted
C2_PairAfterTokens ==
  \A p \in DOMAIN pairs :
    \A t \in {pairs[p].token0, pairs[p].token1} :
      /\ t \in DOMAIN tokens
      /\ tokens[t].created_at < pairs[p].created_at

\* indexPair (the event path) has stored a pair, after the tokens it indexed
C2_PairStoredByIndexPair ==
  \E p \in DOMAIN pairs :
    /\ ~pairs[p].token0.lower
    /\ pairs[p].token0 \in DOMAIN tokens
    /\ pairs[p].token1 \in DOMAIN tokens
    /\ p \in DOMAIN pairsCache

\* C3: the final candle of a bucket is a function of the set of trades in the
\* bucket alone: whatever the order of the deliveries and the placement of the
\* candle job runs between them, it is the aggregate of the trades last read
C3_CandleIsAggregate ==
  \A key \in DOMAIN candleRuns : candles[key] \in CandlesOf(candleRuns[key].rows)

\* C4: the candle upsert is idempotent: as long as every run of generateCandles
\* for a candle has read the same trades, the candle's volume_usd, volume_token0
\* and volume_token1 are what the first run produced
C4_UpsertIdempotent ==
  \A key \in DOMAIN candleRuns :
    candleRuns[key].same =>
      /\ candles[key].volume_usd = candleRuns[key].firstCandle.volume_usd
      /\ candles[key].volume_token0 = candleRuns[key].firstCandle.volume_token0
      /\ candles[key].volume_token1 = candleRuns[key].firstCandle.volume_token1

\* the token registrations two different callbacks have in flight for one address
ConcurrentTasks ==
  {<<h1, k1, h2, k2>> \in Handlers \X {1, 2} \X Handlers \X {1, 2} :
     /\ h1 # h2
     /\ handlers[h1].pc = "tokens"
     /\ handlers[h2].pc = "tokens"
     /\ ToLowerCase(handlers[h1].tok[k1].address) = ToLowerCase(handlers[h2].tok[k2].address)}

\* C5: when several events concurrently trigger the registration of the same
\* token, at most one of the registrations in flight queries the chain for its
\* metadata
C5_SingleFlight ==
  \A c \in ConcurrentTasks :
    ~(handlers[c[1]].tok[c[2]].queried /\ handlers[c[3]].tok[c[4]].queried)

\* the connected sockets that listen to a channel of the upstream Redis subscriber
PriceListeners(p) == {s \in connected : p \in MapGet(socketSubscriptions, s)}
CandleListeners(p, tf) == {s \in connected : CandleChannel(p, tf) \in rooms[s]}

\* C6: after any sequence of subscribe, unsubscribe, subscribe_candles and
\* disconnect events the upstream Redis subscription of a channel is active if and
\* only if at least one connected socket is subscribed to the channel
C6_UpstreamIffSubscribed ==
  /\ \A p \in FanPairs : PriceChannel(p) \in redisSubscribed <=> PriceListeners(p) # {}
  /\ \A p \in FanPairs, tf \in FanTimeframes :
       CandleChannel(p, tf) \in redisSubscribed <=> CandleListeners(p, tf) # {}

HandlersOf(p) == {h \in Handlers : Running(h) /\ ChainLog(handlers[h].log).address = p}

\* C7: the handlers of two events of one pair never overlap, so once they have
\* finished the pair's price-cache entries are those of the later event
C7_PriceCacheOfLatest ==
  \A p \in DOMAIN lastDone :
    HandlersOf(p) = {} =>
      /\ priceCache[<<p, "token0">>] = lastDone[p].token0
      /\ priceCache[<<p, "token1">>] = lastDone[p].token1

\* C8: a trade row is immutable once inserted: every row is still the row its
\* first insert stored
C8_TradeRowsImmutable ==
  \A r \in trades : firstStored[r.key] = r

\* C9: replaying a Swap event leaves candle state unchanged: the candle derived
\* after any number of deliveries of the events is the candle of the rows their
\* first deliveries stored
C9_ReplayKeepsCandle ==
  \A key \in DOMAIN candleRuns :
    candleRuns[key].runs = 1 =>
      candles[key] \in CandlesOf({firstStored[r.key] : r \in candleRuns[key].rows})

BucketClosed(tf, b) == now >= b + TimeframeSeconds(tf)
\* the ledger trades of a pair whose timestamp lies in the bucket's window
BucketTrades(p, tf, b) == SelectTrades(trades, p, b, b + TimeframeSeconds(tf))
\* the stored candle of the bucket is the aggregate of its ledger trades
BucketReconciled(p, tf, b) ==
  /\ <<p, tf, b>> \in DOMAIN candles
  /\ candles[<<p, tf, b>>] \in CandlesOf(BucketTrades(p, tf, b))

\* C11: for every closed bucket of every pair that contains at least one ledger
\* trade, the stored candle eventually equals the aggregate of all ledger trades
\* whose timestamp lies in the bucket's window (here: the 5-minute bucket 0)
C11_ClosedBucketReconciled ==
  \A p \in PairIds :
    (BucketClosed("5m", 0) /\ BucketTrades(p, "5m", 0) # {})
      ~> BucketReconciled(p, "5m", 0)

\* the candle a job in flight is about to upsert
JobKey(j) == <<jobs[j].pair, Head(jobs[j].tfs), jobs[j].candleTime>>
\* two runs of the candle job are about to upsert the same candle
ConcurrentUpserts ==
  {jj \in (DOMAIN jobs) \X (DOMAIN jobs) :
     /\ jj[1] < jj[2]
     /\ jobs[jj[1]].pc = "upsert"
     /\ jobs[jj[2]].pc = "upsert"
     /\ JobKey(jj[1]) = JobKey(jj[2])}
\* the candle after the upserts of `first` and then `second`
AfterBoth(key, first, second) ==
  UpsertCandle(UpsertCandle(candles, key, first), key, second)[key]

\* C12: when two candle updates for the same (pair, timeframe, bucket) are
\* applied concurrently, the final candle is the same whichever upsert commits
\* first, and applying the same update twice gives the result of applying it once
C12_ConcurrentUpsertsConverge ==
  \A jj \in ConcurrentUpserts :
    \A n1 \in CandlesOf(jobs[jj[1]].rows), n2 \in CandlesOf(jobs[jj[2]].rows) :
      LET key == JobKey(jj[1])
      IN  /\ AfterBoth(key, n1, n2) = AfterBoth(key, n2, n1)
          /\ n1 = n2 => AfterBoth(key, n1, n2) = UpsertCandle(candles, key, n1)[key]

\* the row lies in the window of the bucket of the candle key
InWindow(r, key) ==
  /\ r.pair_address = key[1]
  /\ key[3] <= r.timestamp
  /\ r.timestamp < key[3] + TimeframeSeconds(key[2])

\* C13: every candle's time is a multiple of its timeframe's duration (the
\* floor of the run's time), and a candle with bucket start b aggregates only
\* trades with b <= timestamp < b + duration: every run that writes a candle,
\* the ones in flight included, read only rows of the candle's window
C13_BucketAlignment ==
  /\ \A key \in DOMAIN candles :
       /\ key[3] % TimeframeSeconds(key[2]) = 0
       /\ key[3] <= now
  /\ \A j \in DOMAIN jobs :
       jobs[j].pc = "upsert" =>
         /\ jobs[j].candleTime % TimeframeSeconds(Head(jobs[j].tfs)) = 0
         /\ \A r \in jobs[j].rows : InWindow(r, JobKey(j))
  /\ \A key \in DOMAIN candleRuns :
       \A r \in candleRuns[key].rows \cup candleRuns[key].firstRows : InWindow(r, key)

\* a candle of the second bucket was written from the trade of that bucket
\* while the ledger held a trade of the same pair in the first bucket
C13_TwoBucketsTwoCandles ==
  \E key \in DOMAIN candleRuns :
    /\ key[3] > 0
    /\ candleRuns[key].rows # {}
    /\ \E r \in trades : r.pair_address = key[1] /\ r.timestamp < key[3]
    /\ <<key[1], key[2], 0>> \in DOMAIN candles

\* C14: in every reachable state every trade row and every candle row refers to
\* a pair that is stored in the pairs table, and a callback is past the pair
\* lookup (in handleSwap) only for a Swap event of a stored pair
C14_RowsReferToStoredPairs ==
  /\ \A r \in trades : r.pair_address \in DOMAIN pairs
  /\ \A key \in DOMAIN candles : key[1] \in DOMAIN pairs
  /\ \A h \in Handlers :
       handlers[h].pc \notin {"idle", "pairRead", "tokens", "lookup"}
         => ChainLog(handlers[h].log).address \in DOMAIN pairs

\* the callback of a Swap event whose pair could not be registered is about to
\* return while another pair has a trade and a candle
C14_UnregisteredPairSkipped ==
  /\ \E h \in Handlers :
       /\ handlers[h].pc = "lookup"
       /\ ChainLog(handlers[h].log).address \notin DOMAIN pairsCache
       /\ ChainLog(handlers[h].log).address \notin DOMAIN pairs
  /\ trades # {}
  /\ candles # <<>>

\* indexPair of callback h has awaited both indexToken calls for pair p and
\* both found or stored their token
TokensCommitted(h, p) ==
  /\ handlers[h].pc = "tokens"
  /\ ChainLog(handlers[h].log).address = p
  /\ \A k \in {1, 2} :
       /\ handlers[h].tok[k].pc = "done"
       /\ SelectTokenByLower(tokens, handlers[h].tok[k].address) # {}

\* C15: whenever a discovery of a pair has both of the pair's tokens committed,
\* the pair is eventually stored in the pairs table
C15_PairEventuallyStored ==
  \A h \in Handlers, p \in PairIds : TokensCommitted(h, p) ~> (p \in DOMAIN pairs)

\* both tokens of pair p have a row in the given tokens table
OwnTokensStored(tbl, p) ==
  /\ SelectTokenByLower(tbl, ChainPair(p).token0) # {}
  /\ SelectTokenByLower(tbl, ChainPair(p).token1) # {}

\* C16: when syncPairs ends, every pair it had read from the chain and not yet
\* indexed whose two tokens are stored is in the pairs table, whatever failed for
\* other addresses
C16_UnrelatedPairsStored ==
  [][(sync.pc = "index" /\ sync'.pc = "done")
       => \A k \in DOMAIN sync.pairDataArray :
            OwnTokensStored(tokens', sync.pairDataArray[k])
              => sync.pairDataArray[k] \in DOMAIN pairs']_vars

\* handleSwap of callback h is processing Swap log i
Processing(h, i) == handlers[h].log = i /\ handlers[h].pc \in {"reserves", "price", "txinfo", "insert"}

\* C17: a Swap event whose processing has started has its trade row stored
\* eventually, also when an RPC read fails on the way
C17_EventEventuallyStored ==
  \A h \in Handlers, i \in LogIds : Processing(h, i) ~> (ChainLog(i).key \in TradeKeys(trades))

\* the step in which handleSwap of callback h ends in its catch: from any await
\* before the trade is stored the callback returns
HandlerFails(h) ==
  /\ handlers[h].pc \in {"reserves", "price", "txinfo", "insert"}
  /\ handlers'[h] = IdleHandler

C19_RunProcessesAllUnits ==
  [][(metricsJob.pc = "run" /\ metricsJob'.pc = "idle")
       => Cardinality(metricsJob.tokensLeft) = 1]_vars

\* C20: a direct call of calculateSwapPrice (either calculator) returns null
\* exactly when neither (amount0In > 0 and amount1Out > 0) nor (amount1In > 0 and
\* amount0Out > 0) holds, and a call that returns a price has divided by no zero
\* on the path it took (direct, cross-pair, fallback)
ValidAmounts(c) ==
  \/ c.amount0In > 0 /\ c.amount1Out > 0
  \/ c.amount1In > 0 /\ c.amount0Out > 0
C20_NullIffInvalidNoZeroDivisor ==
  priceCall.pc = "returned" =>
    /\ (priceCall.result = Null) <=> ~ValidAmounts(priceCall)
    /\ priceCall.result # Null => \A d \in priceCall.divisors : d[1] # 0 /\ d[2] # 0

\* the call with four zero amounts has returned null
C20_AllZeroReturnsNull ==
  /\ priceCall.pc = "returned"
  /\ priceCall.amount0In = 0 /\ priceCall.amount1In = 0
  /\ priceCall.amount0Out = 0 /\ priceCall.amount1Out = 0
  /\ priceCall.result = Null

\* C21: every non-null result of calculateSwapPrice (either calculator) for a
\* pair with WOPN on one side, whichever side and whichever swap direction,
\* prices the WOPN side at exactly priceInOPN = 1 and priceInUSD = 1/20
C21_QuotePriceFixed ==
  LET c == priceCall
      quote0 == ToLowerCase(c.token0) = WOPN_ADDRESS
      quote1 == ToLowerCase(c.token1) = WOPN_ADDRESS
  IN  (c.pc = "returned" /\ c.result # Null /\ quote0 # quote1) =>
        LET side == IF quote0 THEN c.result.token0Price ELSE c.result.token1Price
        IN  side.priceInOPN = <<1, 1>> /\ side.priceInUSD = <<1, 20>>

\* a swap of token0 for WOPN (token1, lower-case spelling) has been priced by
\* PriceCalculatorEnhanced
C21_QuoteAsToken1Priced ==
  /\ priceCall.pc = "returned"
  /\ priceCall.calculator = "PriceCalculatorEnhanced"
  /\ priceCall.result # Null
  /\ priceCall.token1 = WOPN_ADDRESS
  /\ priceCall.token0.id # WOPN
  /\ priceCall.amount0In > 0 /\ priceCall.amount1Out > 0

\* C22: for a pair with WOPN on one side and a swap in one direction (the two
\* other amounts are 0), the other token's priceInOPN is (WOPN amount moved) /
\* (token amount moved) and its priceInUSD is that ratio times 1/20, for both
\* directions and both positions of WOPN
C22_TokenPriceIsExecutionRatio ==
  LET c == priceCall
      quote0 == ToLowerCase(c.token0) = WOPN_ADDRESS
      quote1 == ToLowerCase(c.token1) = WOPN_ADDRESS
      oneWay == \/ c.amount0In > 0 /\ c.amount1Out > 0 /\ c.amount1In = 0 /\ c.amount0Out = 0
                \/ c.amount1In > 0 /\ c.amount0Out > 0 /\ c.amount0In = 0 /\ c.amount1Out = 0
  IN  (c.pc = "returned" /\ quote0 # quote1 /\ oneWay) =>
        LET moved0 == c.amount0In + c.amount0Out
            moved1 == c.amount1In + c.amount1Out
            ratio == IF quote0 THEN Rat(moved0, moved1) ELSE Rat(moved1, moved0)
            token == IF quote0 THEN c.result.token1Price ELSE c.result.token0Price
        IN  /\ c.result # Null
            /\ token.priceInOPN = ratio
            /\ token.priceInUSD = RMul(ratio, <<1, 20>>)

\* 1 WOPN (token0) in for 2 tokens out has given 1/2 WOPN and 1/40 USD per token
C22_OneInTwoOut ==
  /\ priceCall.pc = "returned"
  /\ ToLowerCase(priceCall.token0) = WOPN_ADDRESS
  /\ priceCall.token1.id # WOPN
  /\ priceCall.amount0In = 1 /\ priceCall.amount1Out = 2
  /\ priceCall.amount1In = 0 /\ priceCall.amount0Out = 0
  /\ priceCall.result # Null
  /\ priceCall.result.token1Price.priceInOPN = <<1, 2>>
  /\ priceCall.result.token1Price.priceInUSD = <<1, 40>>

\* C23: in a call of calculateSwapPrice for a pair without WOPN (with db) each
\* token's priceInUSD is the first positive one of: its unexpired cache entry,
\* its latest token_metrics row, its price through a pair with WOPN; only a
\* token for which all three fail is priced from the other side
C23_SourcesInOrder ==
  [][LET own(token) ==
           LET cached == getCachedPrice(calcCache, token, now)
               snapshot == getTokenPriceFromDB(tokenMetrics, token)
           IN  IF RPos(cached) THEN cached
               ELSE IF RPos(snapshot) THEN snapshot
               ELSE findPricePathThroughBase(pairs, token).price
         r == priceCall'.result
     IN  (priceCall.pc = "none" /\ priceCall'.pc = "returned" /\ priceCall'.db
            /\ r # Null /\ r.token0.id # WOPN /\ r.token1.id # WOPN) =>
           /\ RPos(own(r.token0)) => r.token0Price.priceInUSD = own(r.token0)
           /\ RPos(own(r.token1)) => r.token1Price.priceInUSD = own(r.token1)]_vars

\* C24: when handleSwap prices a swap of a pair without WOPN and no source
\* (cache, token_metrics, pair with WOPN) prices either token, calculateSwapPrice
\* returns a result (not null, no exception) whose two priceInUSD are 0, and the
\* INSERT of a swap with such a result stores its trade row with both prices 0
C24_UnpricedSwapStoredWithZeros ==
  [][\A h \in Handlers :
       LET log == ChainLog(handlers[h].log)
           info == pairsCache[log.address]
           noSource(token) ==
             /\ getCachedPrice(calcCache, token, now) = RZero
             /\ getTokenPriceFromDB(tokenMetrics, token) = RZero
             /\ findPricePathThroughBase(pairs, token).price = RZero
           zeros(priceData) ==
             /\ priceData # Null
             /\ priceData.token0Price.priceInUSD = RZero
             /\ priceData.token1Price.priceInUSD = RZero
       IN  /\ (/\ handlers[h].pc = "price" /\ handlers'[h] # handlers[h]
               /\ info.token0.id # WOPN /\ info.token1.id # WOPN
               /\ \/ log.amount0In > 0 /\ log.amount1Out > 0
                  \/ log.amount1In > 0 /\ log.amount0Out > 0
               /\ noSource(info.token0) /\ noSource(info.token1))
                => handlers'[h].pc = "txinfo" /\ zeros(handlers'[h].priceData)
           /\ (/\ handlers[h].pc = "insert" /\ handlers'[h] # handlers[h]
               /\ zeros(handlers[h].priceData)
               /\ log.address \in DOMAIN pairs)
                => \E r \in trades' : /\ r.key = log.key
                                      /\ r.price_token0_usd = RZero
                                      /\ r.price_token1_usd = RZero]_vars

\* a swap of pair 2 (token 2 against token 3) is stored with both prices 0
C24_ZeroPricedTradeStored ==
  \E r \in trades : /\ r.pair_address = 2
                    /\ r.price_token0_usd = RZero
                    /\ r.price_token1_usd = RZero

\* C25: a resolution at time now reads a cached price only if the entry was
\* written less than CACHE_TTL seconds before: getCachedPrice returns nothing for
\* an entry of age >= CACHE_TTL, and the call returns what it returns when only
\* the entries younger than CACHE_TTL are in the cache (the next sources decide)
C25_StaleEntryNotUsed ==
  [][(/\ priceCall.pc = "none" /\ priceCall'.pc = "returned"
      /\ priceCall'.calculator = "PriceCalculatorEnhanced")
       => LET r == priceCall'
              young == {id \in DOMAIN calcCache : now - calcCache[id].timestamp < CACHE_TTL}
              youngCache == [id \in young |-> calcCache[id]]
          IN  /\ \A token \in {r.token0, r.token1} :
                   (token.id \in DOMAIN calcCache /\ token.id \notin young)
                     => getCachedPrice(calcCache, token, now) = RZero
              /\ r.result = calculateSwapPrice(youngCache, tokenMetrics, pairs, now,
                              r.token0, r.token1, r.amount0In, r.amount1In,
                              r.amount0Out, r.amount1Out, r.db).result]_vars

\* a resolution found an entry of token0 of age exactly CACHE_TTL with another
\* price than the one it resolved
C25_EntryOfAgeTTLIgnored ==
  /\ priceCall.pc = "returned" /\ priceCall.calculator = "PriceCalculatorEnhanced"
  /\ priceCall.db /\ priceCall.amount0In > 0 /\ priceCall.amount1Out > 0
  /\ priceCall.token0 \in CrossTokens /\ priceCall.token1 \in CrossTokens
  /\ priceCall.token0.id \in DOMAIN priceCall.cache
  /\ now - priceCall.cache[priceCall.token0.id].timestamp = CACHE_TTL
  /\ RPos(priceCall.cache[priceCall.token0.id].priceUSD)
  /\ priceCall.result.token0Price.priceInUSD # priceCall.cache[priceCall.token0.id].priceUSD

\* C26: the buy/sell classification of a stored swap depends on the identity of
\* the tokens of its pair and on its direction only: it is the classification
\* handleSwap gives the same swap of the same pair when the price cache and
\* token_metrics are empty, a run that differs in the resolved prices only
C26_TradeTypeIndependentOfPrices ==
  \A r \in trades :
    LET log == ChainLog(r.key)
        pairInfo == pairsCache[log.address]
        other == calculateSwapPrice(<<>>, <<>>, pairs, now, pairInfo.token0, pairInfo.token1,
                                    log.amount0In, log.amount1In, log.amount0Out,
                                    log.amount1Out, TRUE).result
    IN  other # Null => r.trade_type = SwapTradeRow(r.id, log, pairInfo, other).trade_type

\* C27: the price impact stored with a swap, computed by
\* PriceCalculatorEnhanced.calculatePriceImpact, is the value of
\* PriceCalculator.calculatePriceImpact for the same positive inputs:
\* |spot - exec| / spot in percent with the 0.3% fee in the execution price
C27_ImpactIsFeeAdjusted ==
  \A r \in trades :
    LET log == ChainLog(r.key)
        sellsToken0 == log.amount0In > 0 /\ log.amount1Out > 0
        amountIn == IF sellsToken0 THEN log.amount0In ELSE log.amount1In
        chain == ChainPair(log.address)
        reserveIn == IF sellsToken0 THEN chain.reserve0 ELSE chain.reserve1
        reserveOut == IF sellsToken0 THEN chain.reserve1 ELSE chain.reserve0
    IN  r.price_impact = PriceCalculator_calculatePriceImpact(amountIn, reserveIn, reserveOut)

\* C28: a call of PriceCalculatorEnhanced.calculateSwapPrice for a swap in one
\* direction between two different tokens returns prices that are exact
\* reciprocals (priceInOPN and priceInverse of each token of a pair with WOPN, the
\* two priceInverse of a pair without WOPN), and the mirrored swap (the output as
\* input and the input as output on the same pair, resolved in the same state)
\* gives each token, found by the token the result names, the same price
C28_MirroredSwapSamePrices ==
  [][(/\ priceCall.pc = "none" /\ priceCall'.pc = "returned"
      /\ priceCall'.calculator = "PriceCalculatorEnhanced"
      /\ priceCall'.token0.id # priceCall'.token1.id
      /\ \/ /\ priceCall'.amount0In > 0 /\ priceCall'.amount1Out > 0
            /\ priceCall'.amount1In = 0 /\ priceCall'.amount0Out = 0
         \/ /\ priceCall'.amount1In > 0 /\ priceCall'.amount0Out > 0
            /\ priceCall'.amount0In = 0 /\ priceCall'.amount1Out = 0)
       => LET r == priceCall'
              mirrored == calculateSwapPrice(calcCache, tokenMetrics, pairs, now,
                            r.token0, r.token1, r.amount0Out, r.amount1Out,
                            r.amount0In, r.amount1In, r.db).result
              PriceOf(result, token) ==
                IF result.token0 = token THEN result.token0Price ELSE result.token1Price
              quoted == WOPN \in {r.token0.id, r.token1.id}
              p0 == r.result.token0Price
              p1 == r.result.token1Price
          IN  /\ r.result # Null /\ mirrored # Null
              /\ {mirrored.token0, mirrored.token1} = {r.token0, r.token1}
              /\ \A token \in {r.token0, r.token1} :
                   PriceOf(mirrored, token) = PriceOf(r.result, token)
              /\ quoted => /\ RMul(p0.priceInOPN, p0.priceInverse) = RInt(1)
                           /\ RMul(p1.priceInOPN, p1.priceInverse) = RInt(1)
              /\ (~quoted /\ (RPos(p0.priceInverse) \/ RPos(p1.priceInverse)))
                   => RMul(p0.priceInverse, p1.priceInverse) = RInt(1)]_vars

\* the swap of 1 of token 3 for 2 of token 2 was resolved from the price of
\* token 2 alone: token 3 costs twice as much
C28_ReverseSwapDerived ==
  /\ priceCall.pc = "returned" /\ priceCall.calculator = "PriceCalculatorEnhanced"
  /\ priceCall.db /\ priceCall.token0.id = 2 /\ priceCall.token1.id = 3
  /\ priceCall.amount1In = 1 /\ priceCall.amount0Out = 2
  /\ priceCall.amount0In = 0 /\ priceCall.amount1Out = 0
  /\ priceCall.result # Null
  /\ RPos(priceCall.result.token1Price.priceInUSD)
  /\ priceCall.result.token0Price.priceInUSD
       = RMul(RInt(2), priceCall.result.token1Price.priceInUSD)

\* C29: a failing call of the token contract never fails indexToken: the step
\* that queries the contract always goes on to the INSERT, with the placeholder
\* 'UNKNOWN' for the contract without symbol() (token 3); indexToken fails at
\* its INSERT only; and an INSERT that completes leaves the row committed with
\* the symbol of the task and the cache holding that row
C29_ChainFailureKeepsIndexing ==
  [][LET StepOk(task, next) ==
           /\ (task.pc = "chain" /\ next # task)
                => /\ next.pc = "insert"
                   /\ next.symbol = (IF task.address.id = 3 THEN "UNKNOWN" ELSE "SYM")
           /\ (next.pc = "failed" /\ task.pc # "failed") => task.pc = "insert"
           /\ (task.pc = "insert" /\ next.pc = "done")
                => /\ task.address \in DOMAIN tokens'
                   /\ tokens'[task.address].symbol = task.symbol
                   /\ tokensCache'[ToLowerCase(task.address)] = tokens'[task.address]
     IN  /\ StepOk(sync.task, sync'.task)
         /\ \A h \in Handlers, k \in {1, 2} :
              StepOk(handlers[h].tok[k], handlers'[h].tok[k])]_vars

\* pair 2 is registered and the row of its token 3 carries the placeholder
C29_PairOfPlaceholderTokenStored ==
  /\ 2 \in DOMAIN pairs
  /\ \E a \in DOMAIN tokens : a.id = 3 /\ tokens[a].symbol = "UNKNOWN"

\* C30: the first query of an indexToken call that finds a committed row of the
\* address, in any spelling, ends the call: no query of the token contract, the
\* tokens table and the commit counter unchanged, and tokensCache holding a
\* committed row of that address under the lower-case key
C30_IndexTokenIdempotent ==
  [][LET Committed(addr) == {a \in DOMAIN tokens : a.id = addr.id}
         ReturnsAtOnce(next) ==
           /\ next.pc = "done" /\ ~next.queried
           /\ tokens' = tokens /\ dbSeq' = dbSeq
           /\ ToLowerCase(next.address) \in DOMAIN tokensCache'
           /\ tokensCache'[ToLowerCase(next.address)]
                \in {tokens[a] : a \in Committed(next.address)}
     IN  /\ (/\ sync.pc = "index" /\ sync.task.pc \in {"none", "done"}
             /\ sync'.task # sync.task /\ sync'.pc = "index"
             /\ Committed(sync'.task.address) # {})
              => ReturnsAtOnce(sync'.task)
         /\ \A h \in Handlers, k \in {1, 2} :
              (/\ handlers[h].tok[k].pc = "select"
               /\ handlers'[h].tok[k] # handlers[h].tok[k]
               /\ Committed(handlers[h].tok[k].address) # {})
                => ReturnsAtOnce(handlers'[h].tok[k])]_vars

\* indexPair's indexToken of a checksummed address returned on the row that
\* syncPairs had committed under the lower-case address
C30_ReturnedOnCommittedRow ==
  \E h \in Handlers, k \in {1, 2} :
    /\ handlers[h].tok[k].pc = "done" /\ ~handlers[h].tok[k].queried
    /\ ~handlers[h].tok[k].address.lower
    /\ handlers[h].tok[k].address \notin DOMAIN tokens
    /\ ToLowerCase(handlers[h].tok[k].address) \in DOMAIN tokens
    /\ tokensCache[ToLowerCase(handlers[h].tok[k].address)]
         = tokens[ToLowerCase(handlers[h].tok[k].address)]

\* C31: every live update a socket receives on a channel comes after the snapshot
\* of that channel: an event emitted to the socket by the handler of Redis
\* messages is preceded by a snapshot event of the same channel
C31_SnapshotBeforeLive ==
  \A s \in Sockets, i \in 1..MaxEmits :
    (i <= Len(received[s]) /\ received[s][i].live)
      => \E j \in 1..(i - 1) : /\ received[s][j].channel = received[s][i].channel
                               /\ ~received[s][j].live

\* C32: the price and trade messages of a swap are published only when the
\* INSERT INTO trades of that swap has completed: every published key is stored,
\* every new publication is made by a handler past its INSERT whose swap is
\* stored, and a handler whose price resolution returned null, whose RPC call
\* failed or whose INSERT failed ends without a publication
C32_PublishedAfterInsert ==
  [][/\ published' \subseteq stored'
     /\ \A h \in Handlers :
          LET log == ChainLog(handlers[h].log)
              ends == Running(h) /\ ~Running(h)'
          IN  /\ (ends /\ handlers[h].pc \in {"reserves", "price", "txinfo", "insert"})
                   => published' = published
              /\ (ends /\ handlers[h].pc = "processInsert" /\ log.key \notin stored')
                   => published' = published
              /\ InsertRejected(h) => published' = published /\ stored' = stored
              /\ (ends /\ handlers[h].pc = "publish")
                   => log.key \in stored /\ log.key \in published'
     /\ \A key \in published' \ published :
          \E h \in Handlers :
            /\ handlers[h].pc \in {"publish", "processInsert"}
            /\ ChainLog(handlers[h].log).key = key /\ key \in stored']_vars

\* an INSERT INTO trades has failed (the sequence has advanced, no key is
\* stored), its handler has ended, and nothing is published, while a flash swap
\* whose price is null is handled
C32_FailedInsertNotPublished ==
  /\ tradeSeq > 0
  /\ stored = {}
  /\ published = {}
  /\ \E h \in Handlers : handlers[h].pc = "idle"
  /\ \E h \in Handlers : handlers[h].pc = "price" /\ handlers[h].log = FlashLog

\* C33: every price change calculateTokenMetrics stores for a token is
\* (current - previous) / previous * 100, previous being the price of the latest
\* snapshot of the token with timestamp <= now - w, and 0 when there is no such
\* snapshot or its price is 0, for each of the six windows w
C33_PriceChangeOverWindow ==
  [][\A addr \in DOMAIN tokens :
       (/\ metricsJob.pc = "run" /\ metricsJob' # metricsJob
        /\ <<addr, now>> \notin DOMAIN tokenMetrics
        /\ <<addr, now>> \in DOMAIN tokenMetrics')
         => \A w \in {"change5m", "change1h", "change6h", "change24h", "change7d",
                       "change30d"} :
              LET row == tokenMetrics'[<<addr, now>>]
                  earlier == {k \in DOMAIN tokenMetrics :
                                k[1] = addr /\ k[2] <= now - PriceChangeWindows[w]}
                  latest == CHOOSE k \in earlier : \A q \in earlier : q[2] <= k[2]
              IN  row.changes[w] =
                    IF earlier = {} \/ tokenMetrics[latest].price_usd[1] = 0 THEN <<0, 1>>
                    ELSE RMul(RDiv(RAdd(row.price_usd,
                                        <<-tokenMetrics[latest].price_usd[1],
                                          tokenMetrics[latest].price_usd[2]>>),
                                   tokenMetrics[latest].price_usd), <<100, 1>>)]_vars

\* C34: token_metrics is append-only: no step changes or removes the row of an
\* existing (token_address, timestamp), every token a run of
\* calculateTokenMetrics processes gets one new row, and no step of the metrics
\* job changes a trade row or a candle row
C34_SnapshotsAppendOnly ==
  [][/\ \A k \in DOMAIN tokenMetrics :
          k \in DOMAIN tokenMetrics' /\ tokenMetrics'[k] = tokenMetrics[k]
     /\ (metricsJob.pc = "run" /\ metricsJob' # metricsJob)
          => /\ trades' = trades /\ candles' = candles
             /\ \E addr \in metricsJob.tokensLeft :
                  /\ <<addr, now>> \notin DOMAIN tokenMetrics
                  /\ DOMAIN tokenMetrics' = DOMAIN tokenMetrics \cup {<<addr, now>>}]_vars

\* C35: a call of PriceCalculatorEnhanced.calculateSwapPrice(token0, token1, ...)
\* that returns a price returns it with token0 and token0Price for its first
\* argument and token1 and token1Price for its second, in either direction of
\* the swap
C35_ResultInPairOrder ==
  (/\ priceCall.pc = "returned" /\ priceCall.calculator = "PriceCalculatorEnhanced"
   /\ priceCall.result # Null)
    => /\ priceCall.result.token0 = priceCall.token0
       /\ priceCall.result.token1 = priceCall.token1

\* C36: a price update published on the channel of pair P is emitted to a
\* socket only while P is in the socket's current subscription set
\* (socketSubscriptions), whatever the other sockets are subscribed to
C36_UpdatesOnlyWhileSubscribed ==
  [][\A s \in Sockets :
       (/\ Len(received'[s]) = Len(received[s]) + 1
        /\ received'[s][Len(received'[s])].live
        /\ received'[s][Len(received'[s])].event = "price_update")
         => received'[s][Len(received'[s])].channel[2] \in MapGet(socketSubscriptions, s)]_vars

\* C37: after any sequence of subscribe, unsubscribe and disconnect events
\* socket s is in pairSubscriptions[p] if and only if p is in
\* socketSubscriptions[s], the two maps name connected sockets only, and no pair
\* is mapped to an empty set
C37_TrackingMapsAgree ==
  /\ \A s \in Sockets, p \in FanPairs :
       (p \in DOMAIN pairSubscriptions /\ s \in pairSubscriptions[p])
         <=> (s \in DOMAIN socketSubscriptions /\ p \in socketSubscriptions[s])
  /\ DOMAIN socketSubscriptions \subseteq connected
  /\ \A p \in DOMAIN pairSubscriptions :
       pairSubscriptions[p] \subseteq connected /\ pairSubscriptions[p] # {}

\* socket 1 has subscribed, received an update and disconnected, socket 2 has
\* subscribed to the pair and unsubscribed from it
C37_AfterDisconnectAndUnsubscribe ==
  /\ connected = {2} /\ 1 \in everConnected
  /\ received[1] # <<>>
  /\ received[2] # <<>>
  /\ socketSubscriptions = [s \in {2} |-> {}]
  /\ pairSubscriptions = <<>>

\* C38: a swap in one direction on a pair of WOPN and another token is
\* classified by every handler as 'buy' when WOPN is the input and as 'sell' when
\* WOPN is the output, whichever position WOPN has in the pair
C38_BuyIffQuoteIsInput ==
  (/\ priceCall.pc = "classified"
   /\ priceCall.tradeType # "none"
   /\ (priceCall.token0.id = 1) # (priceCall.token1.id = 1)
   /\ \/ /\ priceCall.amount0In > 0 /\ priceCall.amount1Out > 0
         /\ priceCall.amount1In = 0 /\ priceCall.amount0Out = 0
      \/ /\ priceCall.amount1In > 0 /\ priceCall.amount0Out > 0
         /\ priceCall.amount0In = 0 /\ priceCall.amount1Out = 0)
    => priceCall.tradeType =
         IF \/ priceCall.token0.id = 1 /\ priceCall.amount0In > 0
            \/ priceCall.token1.id = 1 /\ priceCall.amount1In > 0
           THEN "buy" ELSE "sell"

\* C39: after any sequence of upserts every stored candle has
\* low <= open <= high and low <= close <= high, in the USD series and in the
\* OPN series
C39_CandleOrdered ==
  \A k \in DOMAIN candles :
    LET c == candles[k]
    IN  /\ ~RLt(c.open_usd, c.low_usd) /\ ~RLt(c.high_usd, c.open_usd)
        /\ ~RLt(c.close_usd, c.low_usd) /\ ~RLt(c.high_usd, c.close_usd)
        /\ ~RLt(c.open_opn, c.low_opn) /\ ~RLt(c.high_opn, c.open_opn)
        /\ ~RLt(c.close_opn, c.low_opn) /\ ~RLt(c.high_opn, c.close_opn)

\* a candle was upserted twice and its close moved away from its open: the
\* second upsert read a row the first had not
C39_UpsertedTwice ==
  \E k \in DOMAIN candles :
    /\ k \in DOMAIN candleRuns /\ candleRuns[k].runs >= 2 /\ ~candleRuns[k].same
    /\ candles[k].close_usd # candles[k].open_usd
    /\ RLt(candles[k].low_usd, candles[k].high_usd)

====
